---- MODULE Spec2Model ----
(***************************************************************************)
(* ULAS attendance engine: the session/entry functions of core.py, the     *)
(* document store client of github_store.py and the student and rep        *)
(* workflows of app.py, as state machines.                                 *)
(*                                                                         *)
(* Python strings are sequences of characters; a character is a one-token  *)
(* string.  str.upper / str.lower / str.title / str.strip are modelled     *)
(* character by character on a small alphabet.                             *)
(***************************************************************************)
EXTENDS Integers, Sequences, FiniteSets, TLC

VARIABLES
  session,   \* the in-memory session dict the core.py functions work on
  ret,       \* what the last core.py call returned (with its arguments)
  now,       \* futo_ts(): the wall clock, in seconds
  files,     \* the GitHub repositories: path -> content of each existing file
  ss,        \* st.session_state of each browser session (students, rep)
  loc,       \* the running turn of each browser session: its position and locals
  DEFAULT_SETTINGS  \* the module-level dict of core.py, one per server process

vars == <<session, ret, now, files, ss, loc, DEFAULT_SETTINGS>>

appVars == <<files, ss, loc, DEFAULT_SETTINGS>>

(***************************************************************************)
(* Characters and the str methods core.py uses.                            *)
(***************************************************************************)
Digits == {"0", "1", "2", "3", "4", "5", "6", "7", "8", "9"}

\* str.lower() of one character.  "dotless_i" is U+0131, which is already
\* lower case; "I".lower() is "i".
LowerChar(c) ==
  CASE c = "A" -> "a"
    [] c = "B" -> "b"
    [] c = "I" -> "i"
    [] OTHER   -> c

\* str.upper() of one character.  Both "i" and U+0131 have the upper case "I".
UpperChar(c) ==
  CASE c = "a" -> "A"
    [] c = "b" -> "B"
    [] c = "i" -> "I"
    [] c = "dotless_i" -> "I"
    [] OTHER   -> c

IsSpace(c) == c = " "

IsCased(c) == c \in {"a", "A", "b", "B", "i", "I", "dotless_i"}

lower(s) == [k \in 1..Len(s) |-> LowerChar(s[k])]

upper(s) == [k \in 1..Len(s) |-> UpperChar(s[k])]

\* str.title(): a cased character that follows a cased character is lowered,
\* any other character is title-cased (upper-cased on this alphabet).
title(s) ==
  [k \in 1..Len(s) |->
     IF k > 1 /\ IsCased(s[k-1]) THEN LowerChar(s[k]) ELSE UpperChar(s[k])]

RECURSIVE lstrip(_)
lstrip(s) == IF s # <<>> /\ IsSpace(Head(s)) THEN lstrip(Tail(s)) ELSE s

RECURSIVE rstrip(_)
rstrip(s) ==
  IF s # <<>> /\ IsSpace(s[Len(s)]) THEN rstrip(SubSeq(s, 1, Len(s) - 1)) ELSE s

strip(s) == rstrip(lstrip(s))

\* str.isdigit(): non-empty and every character a digit.
isdigit(s) == s # <<>> /\ \A k \in 1..Len(s) : s[k] \in Digits

(***************************************************************************)
(* Entries (core.py).  The functions mutate the session dict they are      *)
(* given; here each returns the dict after the call beside its result.     *)
(***************************************************************************)
MsgNameDup      == "A student with this name is already in the attendance."
MsgMatricDup    == "This matric number is already in the attendance."
MsgEditNameDup  == "Another entry already has this name."
MsgEditMatDup   == "Another entry already has this matric number."
MsgNotFound     == "Entry not found."

\* exclude_sn=None is written NoSn; `exclude_sn and e["sn"] == exclude_sn`
\* treats None and 0 alike (both falsy).
NoSn == 0

Truthy(exclude_sn) == exclude_sn # NoSn

_name_dup(entries, surname, other_names, exclude_sn) ==
  \E k \in 1..Len(entries) :
    /\ ~(Truthy(exclude_sn) /\ entries[k].sn = exclude_sn)
    /\ lower(entries[k].surname) = lower(strip(surname))
    /\ lower(entries[k].other_names) = lower(strip(other_names))

_matric_dup(entries, matric, exclude_sn) ==
  \E k \in 1..Len(entries) :
    /\ ~(Truthy(exclude_sn) /\ entries[k].sn = exclude_sn)
    /\ entries[k].matric = strip(matric)

\* add_entry numbering the new entry by the length of the list.
add_entry_sn_by_length(s, surname, other_names, matric, t) ==
  IF _name_dup(s.entries, surname, other_names, NoSn)
  THEN [ok |-> FALSE, msg |-> MsgNameDup, session |-> s]
  ELSE IF _matric_dup(s.entries, matric, NoSn)
  THEN [ok |-> FALSE, msg |-> MsgMatricDup, session |-> s]
  ELSE [ok |-> TRUE, msg |-> "Entry recorded.",
        session |->
          [s EXCEPT !.entries = Append(@, [sn          |-> Len(s.entries) + 1,
                                           surname     |-> upper(strip(surname)),
                                           other_names |-> title(strip(other_names)),
                                           matric      |-> strip(matric),
                                           time        |-> t]),
                    !.next_sn = @ + 1]]

\* add_entry that leaves next_sn as it is.
add_entry_counter_kept(s, surname, other_names, matric, t) ==
  IF _name_dup(s.entries, surname, other_names, NoSn)
  THEN [ok |-> FALSE, msg |-> MsgNameDup, session |-> s]
  ELSE IF _matric_dup(s.entries, matric, NoSn)
  THEN [ok |-> FALSE, msg |-> MsgMatricDup, session |-> s]
  ELSE [ok |-> TRUE, msg |-> "Entry recorded.",
        session |->
          [s EXCEPT !.entries = Append(@, [sn          |-> s.next_sn,
                                           surname     |-> upper(strip(surname)),
                                           other_names |-> title(strip(other_names)),
                                           matric      |-> strip(matric),
                                           time        |-> t])]]

add_entry(s, surname, other_names, matric, t) ==
  IF _name_dup(s.entries, surname, other_names, NoSn)
  THEN [ok |-> FALSE, msg |-> MsgNameDup, session |-> s]
  ELSE IF _matric_dup(s.entries, matric, NoSn)
  THEN [ok |-> FALSE, msg |-> MsgMatricDup, session |-> s]
  ELSE [ok |-> TRUE, msg |-> "Entry recorded.",
        session |->
          [s EXCEPT !.entries = Append(@, [sn          |-> s.next_sn,
                                           surname     |-> upper(strip(surname)),
                                           other_names |-> title(strip(other_names)),
                                           matric      |-> strip(matric),
                                           time        |-> t]),
                    !.next_sn = @ + 1]]

edit_entry(s, sn, surname, other_names, matric) ==
  IF _name_dup(s.entries, surname, other_names, sn)
  THEN [ok |-> FALSE, msg |-> MsgEditNameDup, session |-> s]
  ELSE IF _matric_dup(s.entries, matric, sn)
  THEN [ok |-> FALSE, msg |-> MsgEditMatDup, session |-> s]
  ELSE IF \E k \in 1..Len(s.entries) : s.entries[k].sn = sn
  THEN LET k == CHOOSE j \in 1..Len(s.entries) :
                  /\ s.entries[j].sn = sn
                  /\ \A i \in 1..(j-1) : s.entries[i].sn # sn
       IN [ok |-> TRUE, msg |-> "Entry updated.",
           session |->
             [s EXCEPT !.entries[k] =
                [@ EXCEPT !.surname     = upper(strip(surname)),
                          !.other_names = title(strip(other_names)),
                          !.matric      = strip(matric)]]]
  ELSE [ok |-> FALSE, msg |-> MsgNotFound, session |-> s]

\* A delete that takes sn for a position in the list.
delete_entry_by_position(s, sn) ==
  IF sn \in 1..Len(s.entries)
  THEN [ok |-> TRUE, msg |-> "Entry removed.",
        session |-> [s EXCEPT !.entries =
                       SubSeq(@, 1, sn - 1) \o SubSeq(@, sn + 1, Len(@))]]
  ELSE [ok |-> FALSE, msg |-> MsgNotFound, session |-> s]

delete_entry(s, sn) ==
  IF \E k \in 1..Len(s.entries) : s.entries[k].sn = sn
  THEN LET k == CHOOSE j \in 1..Len(s.entries) :
                  /\ s.entries[j].sn = sn
                  /\ \A i \in 1..(j-1) : s.entries[i].sn # sn
       IN [ok |-> TRUE, msg |-> "Entry removed.",
           session |->
             [s EXCEPT !.entries =
                SubSeq(@, 1, k - 1) \o SubSeq(@, k + 1, Len(@))]]
  ELSE [ok |-> FALSE, msg |-> MsgNotFound, session |-> s]

(***************************************************************************)
(* Token and session construction (core.py).                               *)
(***************************************************************************)
DigitSeq == <<"0", "1", "2", "3", "4", "5", "6", "7", "8", "9">>

RECURSIVE DecimalDigits(_)
DecimalDigits(n) ==
  IF n < 10 THEN <<DigitSeq[n + 1]>>
  ELSE Append(DecimalDigits(n \div 10), DigitSeq[(n % 10) + 1])

RECURSIVE ZeroPad(_, _)
ZeroPad(s, width) == IF Len(s) >= width THEN s ELSE ZeroPad(<<"0">> \o s, width)

\* f"{n:04d}"
Format04d(n) == ZeroPad(DecimalDigits(n), 4)

\* The values random.randint(0, 9999) is let to return in the model.
RandInts == {0, 7, 42, 9999}

\* A token printed without padding.
generate_token_unpadded(n) == DecimalDigits(n)

generate_token(n) == Format04d(n)

DEFAULT_TOKEN_LIFETIME == 7

\* DEFAULT_SETTINGS as core.py lines 58-61 create it.
InitDefaultSettings ==
  [TOKEN_LIFETIME |-> DEFAULT_TOKEN_LIFETIME, dept_abbreviations |-> <<>>]

School     == "SICT"
Department == "Computer Science"
Level      == "300"

\* A session whose counter starts at 0.
NewSession_counter_from_zero(course_code, rep_username, n, t) ==
  [school             |-> School,
   department         |-> Department,
   level              |-> Level,
   course_code        |-> upper(strip(course_code)),
   rep_username       |-> rep_username,
   started_at         |-> t,
   token              |-> generate_token(n),
   token_generated_at |-> t,
   entries            |-> <<>>,
   next_sn            |-> 0]

\* start_session builds this dict; n is the random draw, t the clock.
NewSession(course_code, rep_username, n, t) ==
  [school             |-> School,
   department         |-> Department,
   level              |-> Level,
   course_code        |-> upper(strip(course_code)),
   rep_username       |-> rep_username,
   started_at         |-> t,
   token              |-> generate_token(n),
   token_generated_at |-> t,
   entries            |-> <<>>,
   next_sn            |-> 1]

\* refresh_token without the age test.
refresh_token_every_call(s, lifetime, n, t) ==
  [session |-> [s EXCEPT !.token = generate_token(n),
                         !.token_generated_at = t],
   refreshed |-> TRUE]

refresh_token(s, lifetime, n, t) ==
  IF t - s.token_generated_at >= lifetime
  THEN [session |-> [s EXCEPT !.token = generate_token(n),
                              !.token_generated_at = t],
        refreshed |-> TRUE]
  ELSE [session |-> s, refreshed |-> FALSE]

Max(a, b) == IF a >= b THEN a ELSE b

token_remaining(s, lifetime, t) ==
  Max(0, lifetime - (t - s.token_generated_at))

\* validate_token without the age check.
validate_token_no_age(s, code, lifetime, t) == s.token = strip(code)

\* validate_token that still accepts at the instant the lifetime is reached.
validate_token_at_lifetime(s, code, lifetime, t) ==
  IF t - s.token_generated_at > lifetime
  THEN FALSE
  ELSE s.token = strip(code)

validate_token(s, code, lifetime, t) ==
  IF t - s.token_generated_at >= lifetime
  THEN FALSE
  ELSE s.token = strip(code)

(***************************************************************************)
(* Bounds and the inputs the checks draw from.                             *)
(***************************************************************************)
MaxSn   == 3     \* add_entry is called while next_sn <= MaxSn
MaxTime == 8     \* the clock runs from 0 to MaxTime

Surnames   == {<<"a">>, <<" ", "A">>, <<"dotless_i">>}
OtherNames == {<<"b">>, <<"b", " ", "a">>}

M1 == <<"2", "0", "2", "0", "1", "2", "3", "4", "5", "6", "7">>
M2 == <<"2", "0", "2", "0", "7", "6", "5", "4", "3", "2", "1">>

Matrics == {M1, M2, M1 \o <<" ">>}

CourseCodes == {<<"a", "b", "1">>}

Lifetimes == {3, DEFAULT_TOKEN_LIFETIME}

Codes == {Format04d(n) : n \in RandInts}
           \cup {<<" ">> \o Format04d(7) \o <<" ">>, <<"7">>, <<>>}

(***************************************************************************)
(* SpecEntries: one session dict under any sequence of add_entry,          *)
(* edit_entry and delete_entry calls.                                      *)
(***************************************************************************)
InitEntries ==
  /\ \E c \in CourseCodes : session = NewSession(c, "rep1", 42, 0)
  /\ ret = [op |-> "start_session"]
  /\ now = 0
  /\ DEFAULT_SETTINGS = InitDefaultSettings
  /\ files = <<>> /\ ss = <<>> /\ loc = <<>>

AddEntry(surname, other_names, matric) ==
  /\ session.next_sn <= MaxSn
  /\ LET r == add_entry(session, surname, other_names, matric, now)
     IN /\ session' = r.session
        /\ ret' = [op |-> "add_entry", ok |-> r.ok, msg |-> r.msg]
  /\ UNCHANGED <<now, appVars>>

EditEntry(sn, surname, other_names, matric) ==
  /\ LET r == edit_entry(session, sn, surname, other_names, matric)
     IN /\ session' = r.session
        /\ ret' = [op |-> "edit_entry", ok |-> r.ok, msg |-> r.msg]
  /\ UNCHANGED <<now, appVars>>

DeleteEntry(sn) ==
  /\ LET r == delete_entry(session, sn)
     IN /\ session' = r.session
        /\ ret' = [op |-> "delete_entry", ok |-> r.ok, msg |-> r.msg]
  /\ UNCHANGED <<now, appVars>>

NextEntries ==
  \/ \E sur \in Surnames, oth \in OtherNames, mat \in Matrics :
       AddEntry(sur, oth, mat)
  \/ \E sn \in 1..MaxSn, sur \in Surnames, oth \in OtherNames, mat \in Matrics :
       EditEntry(sn, sur, oth, mat)
  \/ \E sn \in 1..MaxSn : DeleteEntry(sn)

SpecEntries == InitEntries /\ [][NextEntries]_vars

(***************************************************************************)
(* SpecToken: the token functions on one session dict while the clock      *)
(* runs.                                                                   *)
(***************************************************************************)
InitToken ==
  /\ \E c \in CourseCodes, n \in RandInts : session = NewSession(c, "rep1", n, 0)
  /\ ret = [op |-> "start_session"]
  /\ now = 0
  /\ DEFAULT_SETTINGS = InitDefaultSettings
  /\ files = <<>> /\ ss = <<>> /\ loc = <<>>

Tick ==
  /\ now < MaxTime
  /\ now' = now + 1
  /\ UNCHANGED <<session, ret, appVars>>

RefreshToken(lifetime, n) ==
  /\ LET r == refresh_token(session, lifetime, n, now)
     IN /\ session' = r.session
        /\ ret' = [op |-> "refresh_token", lifetime |-> lifetime, at |-> now,
                   value |-> r.refreshed]
  /\ UNCHANGED <<now, appVars>>

ValidateToken(code, lifetime) ==
  /\ ret' = [op |-> "validate_token", lifetime |-> lifetime, at |-> now,
             code |-> code, value |-> validate_token(session, code, lifetime, now)]
  /\ UNCHANGED <<session, now, appVars>>

TokenRemaining(lifetime) ==
  /\ ret' = [op |-> "token_remaining", lifetime |-> lifetime, at |-> now,
             value |-> token_remaining(session, lifetime, now)]
  /\ UNCHANGED <<session, now, appVars>>

NextToken ==
  \/ Tick
  \/ \E lifetime \in Lifetimes, n \in RandInts : RefreshToken(lifetime, n)
  \/ \E code \in Codes, lifetime \in Lifetimes : ValidateToken(code, lifetime)
  \/ \E lifetime \in Lifetimes : TokenRemaining(lifetime)

SpecToken == InitToken /\ [][NextToken]_vars

(***************************************************************************)
(* The document store (github_store.py) and the GitHub Contents API behind *)
(* it.  Python None is the empty tuple, a value x that may be None is <<x>>.*)
(* A file's sha is the git blob id of its content: a collision-free        *)
(* function of the content, not a counter.  json.dumps / json.loads and    *)
(* base64 round-trip the documents used here (dicts with string keys,      *)
(* lists, strings, numbers), so a file's content is the document itself.   *)
(***************************************************************************)
None == <<>>

Some(x) == <<x>>

Sha(content) == <<"blob", content>>

\* GET /contents/path: the file and its sha, or None on 404.
_gh_get(fs, path) ==
  IF path \in DOMAIN fs
  THEN Some([content |-> fs[path], sha |-> Sha(fs[path])])
  ELSE None

\* _gh_put that sends no sha check: the write is applied whatever is stored.
_gh_put_unconditional(fs, path, content, sha, http_error) ==
  [ok    |-> ~http_error,
   files |-> IF ~http_error THEN (path :> content) @@ fs ELSE fs]

\* PUT /contents/path.  `sha` goes into the payload only when it is truthy.
\* The API applies the write when the sha sent is the sha of the stored file
\* (no sha for a file that does not exist yet) and answers 409/422 otherwise;
\* http_error stands for any other HTTPError.  Returns True on success.
_gh_put(fs, path, content, sha, http_error) ==
  LET matches == IF path \in DOMAIN fs
                 THEN sha = Some(Sha(fs[path]))
                 ELSE sha = None
      ok == ~http_error /\ matches
  IN [ok    |-> ok,
      files |-> IF ok THEN (path :> content) @@ fs ELSE fs]

\* DELETE /contents/path with the sha of the file to remove.
_gh_delete(fs, path, sha, http_error) ==
  LET ok == ~http_error /\ path \in DOMAIN fs /\ sha = Sha(fs[path])
  IN [ok    |-> ok,
      files |-> IF ok THEN [q \in DOMAIN fs \ {path} |-> fs[q]] ELSE fs]

read_json(fs, path) ==
  LET result == _gh_get(fs, path)
  IN IF result = None
     THEN [data |-> None, sha |-> None]
     ELSE [data |-> Some(result[1].content), sha |-> Some(result[1].sha)]

(***************************************************************************)
(* Paths (core.py).                                                        *)
(***************************************************************************)
\* safe(s): "/" and " " become "_", parentheses are dropped.
safe(s) ==
  CASE s = "Computer Science" -> "Computer_Science"
    [] OTHER -> s

_session_path(school, department, level) ==
  <<"ULASDATA", "sessions", safe(school), safe(department), level>>

_device_map_path(school, department, level, course_code) ==
  <<"ULASDATA", "devices", safe(school), safe(department), level,
    upper(course_code)>>

SETTINGS_PATH == <<"ULASDATA", "data/settings.json">>

load_session(fs, school, department, level) ==
  read_json(fs, _session_path(school, department, level))

\* load_settings().get("TOKEN_LIFETIME", 7) of a browser session whose cache
\* holds what the store holds (no settings edit happens in these workflows).
TokenLifetime(fs) ==
  IF SETTINGS_PATH \in DOMAIN fs
  THEN fs[SETTINGS_PATH].TOKEN_LIFETIME
  ELSE DEFAULT_TOKEN_LIFETIME

validate_matric(matric) ==
  LET m == strip(matric)
  IN isdigit(m) /\ Len(m) = 11

(***************************************************************************)
(* Browser sessions.  Each runs one turn (one run of app.py) at a time;    *)
(* a turn is a sequence of steps, one per HTTP request, with the Python    *)
(* between two requests done in the step of the first.  Steps of           *)
(* different browser sessions interleave.                                  *)
(***************************************************************************)
Students == {"s1", "s2"}

Rep == "rep1"

\* One student and the rep share a session in SpecApp.
AppClients == {"s1", Rep}

AppMaxSn   == 2    \* add_entry runs in a workflow while next_sn <= AppMaxSn
AppMaxTime == 3    \* the clock of the workflows runs from 0 to AppMaxTime

\* The values random.randint(0, 9999) is let to return in the workflows.
AppRandInts == {7, 42}

\* The value it returns to the rep's turns.
RepRandInts == {7}

NoDevice == <<>>
Dev1     == <<"d", "1">>

\* What a student may type into the entry form (with the device id the
\* page's script put into the hidden field).
SubmitInputs ==
  {[surname |-> <<"a">>, other_names |-> <<"b">>, matric |-> M1, device_id |-> Dev1],
   [surname |-> <<"i">>, other_names |-> <<"b">>, matric |-> M2, device_id |-> Dev1],
   [surname |-> <<"a">>, other_names |-> <<"b">>, matric |-> M2, device_id |-> NoDevice]}

\* Submissions from a browser that sent no device id: a valid one, one with
\* a blank surname and one with a matric of ten digits.
AppSubmitInputs ==
  {[surname |-> <<"i">>, other_names |-> <<"b">>, matric |-> M2, device_id |-> NoDevice],
   [surname |-> <<" ">>, other_names |-> <<"b">>, matric |-> M2, device_id |-> NoDevice],
   [surname |-> <<"i">>, other_names |-> <<"b">>, matric |-> Tail(M2),
    device_id |-> NoDevice]}

\* What the rep may type into the manual-add and the edit form.
RepInputs ==
  {[surname |-> <<"a">>, other_names |-> <<"b">>, matric |-> M1]}

\* What the rep may type into the manual-add form: the same, or a blank
\* surname.
RepAddInputs ==
  RepInputs \cup {[surname |-> <<" ">>, other_names |-> <<"b">>, matric |-> M1]}

Idle == [pc |-> "idle"]

Show(s, m) == [s EXCEPT !.shown = m]

\* The turn ends (the script reaches its end, st.stop() or st.rerun()): its
\* locals go away, st.session_state stays.
EndTurn(s) == [ss |-> s, loc |-> Idle]

\* write_json(path, data, message, sha) is entered: with no sha it first
\* fetches the current one.  `then` names the call site, `frame` its locals.
CallWriteJson(s, path, data, sha, then, frame) ==
  [ss  |-> s,
   loc |-> [pc    |-> IF sha = None THEN "write_json_get" ELSE "write_json_put",
            path  |-> path, data |-> data, sha |-> sha,
            then  |-> then, frame |-> frame]]

SessionPath == _session_path(School, Department, Level)

(***************************************************************************)
(* Student flow (app.py), stage "entry": the submit handler.               *)
(***************************************************************************)
MsgDeviceUsed ==
  "This device has already been used to sign attendance for this class."

\* The end of the student's submission with the stage set to done as soon
\* as add_entry has admitted the entry, without save_session.
StuAddAndSave_done_without_save(s, frame, t) ==
  LET r == add_entry(frame.current, frame.surname, frame.other_names,
                     frame.matric, t)
  IN IF r.ok
     THEN EndTurn([s EXCEPT !.stu_session = Some(r.session),
                            !.stu_stage = "done", !.shown = "recorded"])
     ELSE EndTurn(Show(s, r.msg))

\* Lines 297-311: the device was allowed; add the entry and save the session.
StuAddAndSave(s, frame, t) ==
  LET r == add_entry(frame.current, frame.surname, frame.other_names,
                     frame.matric, t)
  IN IF r.ok
     THEN CallWriteJson(s, SessionPath, r.session, frame.sha, "stu_save",
                        [frame EXCEPT !.current = r.session])
     ELSE EndTurn(Show(s, r.msg))

(***************************************************************************)
(* Rep dashboard (app.py, lines 366-592).  `click` is the widget event     *)
(* that started the turn.                                                  *)
(***************************************************************************)
SnsOfEntries(entries) == {entries[k].sn : k \in 1..Len(entries)}

\* session_to_csv: the header row and one row per entry.
session_to_csv(s) ==
  <<<<"S/N", "Surname", "Other Names", "Matric Number", "Time">>>>
    \o [k \in 1..Len(s.entries) |->
          <<s.entries[k].sn, s.entries[k].surname, s.entries[k].other_names,
            s.entries[k].matric, s.entries[k].time>>]

\* push_attendance_to_lava: attendances/{date}/{filename}; the file name is
\* made of the school abbreviation, course code, department abbreviation,
\* level and start date.  School, department and level are fixed here.
LavaPath(s) == <<"LAVA", "attendances", s.started_at \div 86400, s.course_code>>

\* Lines 556-592: the End button, then the tick at the end of the script.
RepEndSection(s, click) ==
  IF click.kind = "end"
  THEN [ss |-> s, loc |-> [pc |-> "end_load"]]
  ELSE EndTurn(s)

\* Lines 488-552, after the table's re-fetch: the edit form and the delete
\* buttons act on the selected entry of the list as rendered in this turn.
RepEntrySection(s, click) ==
  LET entries == s.rep_session[1].entries
  IN IF entries = <<>> \/ click.kind \notin {"edit", "delete", "yes", "no"}
        \/ click.sn \notin SnsOfEntries(entries)
     THEN RepEndSection(s, click)
     ELSE IF click.kind = "edit"
     THEN IF validate_matric(click.matric)
          THEN [ss |-> s, loc |-> [pc |-> "edit_load", click |-> click]]
          ELSE RepEndSection(Show(s, "invalid matric"), click)
     ELSE IF click.kind = "delete"
     THEN IF s.show_delete_confirm = Some(click.sn)
          THEN RepEndSection(s, click)
          ELSE EndTurn([s EXCEPT !.show_delete_confirm = Some(click.sn)])
     ELSE IF s.show_delete_confirm # Some(click.sn)
     THEN RepEndSection(s, click)
     ELSE IF click.kind = "yes"
     THEN [ss |-> s, loc |-> [pc |-> "delete_load", click |-> click]]
     ELSE EndTurn([s EXCEPT !.show_delete_confirm = None])

MsgNamesEmpty == "Name fields cannot be empty."

\* A manual-add form that validates nothing.
RepAddSection_no_validation(s, click) ==
  IF click.kind = "add"
  THEN [ss |-> s, loc |-> [pc |-> "add_load", click |-> click]]
  ELSE [ss |-> s, loc |-> [pc |-> "table_load", click |-> click]]

\* Lines 452-481: the manual-add form, then the table's re-fetch.
RepAddSection(s, click) ==
  IF click.kind = "add"
  THEN IF strip(click.surname) = <<>> \/ strip(click.other_names) = <<>>
       THEN [ss |-> Show(s, MsgNamesEmpty),
             loc |-> [pc |-> "table_load", click |-> click]]
       ELSE IF ~validate_matric(click.matric)
       THEN [ss |-> Show(s, "invalid matric"),
             loc |-> [pc |-> "table_load", click |-> click]]
       ELSE [ss |-> s, loc |-> [pc |-> "add_load", click |-> click]]
  ELSE [ss |-> s, loc |-> [pc |-> "table_load", click |-> click]]

\* RepTop that refreshes the token and does not save the session.
RepTop_refresh_not_saved(s, click, lifetime, n, t) ==
  IF s.rep_session = None
  THEN EndTurn(s)
  ELSE LET r == refresh_token(s.rep_session[1], lifetime, n, t)
       IN RepAddSection([s EXCEPT !.rep_session = Some(r.session)], click)

\* Lines 395-424, with the session loaded: the start form when there is no
\* session, else the token refresh.  refresh_token changes the dict held in
\* st.session_state in place.
RepTop(s, click, lifetime, n, t) ==
  IF s.rep_session = None
  THEN IF click.kind = "start"
       THEN IF strip(click.course_code) = <<>>
            THEN EndTurn(Show(s, "Please enter a course code."))
            ELSE LET new == NewSession(click.course_code, s.rep_user.username, n, t)
                 IN CallWriteJson(s, SessionPath, new, None, "rep_start",
                                  [session |-> new])
       ELSE EndTurn(s)
  ELSE LET r == refresh_token(s.rep_session[1], lifetime, n, t)
           s1 == [s EXCEPT !.rep_session = Some(r.session)]
       IN IF r.refreshed
          THEN CallWriteJson(s1, SessionPath, r.session, s.rep_session_sha,
                             "rep_refresh", [click |-> click])
          ELSE RepAddSection(s1, click)

(***************************************************************************)
(* The user directory (core.py lines 89-140) as the advisor portal uses    *)
(* it.  cached_read_json keeps the dict and its sha in st.session_state;   *)
(* load_users returns that very dict, and create_user, update_password and *)
(* delete_user change it in place before they save it.                     *)
(***************************************************************************)
USERS_PATH == <<"ULASDATA", "data", "users.json">>

\* hash_password of the password typed at creation, and at a reset.
Hash1 == "sha256_1"
Hash2 == "sha256_2"

\* hash_password, lines 51-52: SHA-256 of the password, here as a table
\* that gives different passwords different digests.
hash_password(pw) ==
  CASE pw = "pw1" -> Hash1
    [] pw = "pw2" -> Hash2
    [] OTHER -> "sha256_3"

\* verify_password, lines 54-55.
verify_password(pw, hashed) == hash_password(pw) = hashed

MsgUserExists  == "Username already exists across FUTO."
MsgWriteFailed == "GitHub write failed."

\* invalidate_cache("__users").
invalidate_cache(s) == [s EXCEPT !.users_cache = None, !.users_cache_sha = None]

\* cached_read_json that reads the store at every call.
cached_read_users_every_call(s, fs) ==
  LET r == read_json(fs, USERS_PATH)
  IN [s EXCEPT !.users_cache = IF r.data = None THEN Some(<<>>) ELSE r.data,
               !.users_cache_sha = r.sha]

\* cached_read_json("__users", USERS_PATH, default={}): fills the cache from
\* the store when the browser session has none.
cached_read_users(s, fs) ==
  IF s.users_cache # None
  THEN s
  ELSE LET r == read_json(fs, USERS_PATH)
       IN [s EXCEPT !.users_cache = IF r.data = None THEN Some(<<>>) ELSE r.data,
                    !.users_cache_sha = r.sha]

\* What load_users() returns in browser session s.
load_users(s, fs) == cached_read_users(s, fs).users_cache[1]

\* The end of save_users (write_and_update_cache has put data and sha in
\* the cache when ok; save_users then drops the cache, lines 92-96) and of
\* the handlers of advisor_app.py: after create_user the page drops the
\* cache and reports success only `if ok`, else it shows the message (and
\* the advisor page goes on to its second tab, which drops the cache, line
\* 443); after
\* update_password and delete_user it drops the cache and reports success
\* without looking at what they returned; "Change My Password" also puts
\* the new hash into the advisor record of the browser session (line 516).
AfterSaveUsers(s, op, ok) ==
  IF op = "create_user"
  THEN EndTurn(Show(IF ok \/ s.portal_role = "advisor"
                    THEN invalidate_cache(s) ELSE s,
                    IF ok THEN "Created." ELSE MsgWriteFailed))
  ELSE IF op = "change_my_password"
  THEN EndTurn(Show([invalidate_cache(s) EXCEPT
                       !.adv_user = Some([s.adv_user[1] EXCEPT
                                            !.password_hash = Hash2])],
                    "Done."))
  ELSE EndTurn(Show(invalidate_cache(s), "Done."))

(***************************************************************************)
(* The settings document (core.py lines 58-71, 329-334).  The cache entry  *)
(* of a browser session is a reference: to the dict parsed from the        *)
(* stored document, or, when the store had none, to DEFAULT_SETTINGS       *)
(* itself (cached_read_json stores `default`, not a copy of it).           *)
(***************************************************************************)
\* invalidate_cache("__settings").
invalidate_cache_settings(s) ==
  [s EXCEPT !.settings_cache = None, !.settings_cache_sha = None]

\* cached_read_json("__settings", SETTINGS_PATH, default=DEFAULT_SETTINGS).
\* Stored documents carry both keys, so the setdefault loop of load_settings
\* adds nothing.
cached_read_settings(s, fs) ==
  IF s.settings_cache # None
  THEN s
  ELSE LET r == read_json(fs, SETTINGS_PATH)
       IN [s EXCEPT !.settings_cache =
                      IF r.data = None
                      THEN Some([obj |-> "DEFAULT_SETTINGS"])
                      ELSE Some([obj |-> "parsed", value |-> r.data[1]]),
                    !.settings_cache_sha = r.sha]

\* The dict a cache entry refers to.
Deref(entry) ==
  IF entry.obj = "DEFAULT_SETTINGS" THEN DEFAULT_SETTINGS ELSE entry.value

\* What load_settings() returns in browser session s.
load_settings(s, fs) == Deref(cached_read_settings(s, fs).settings_cache[1])

\* The end of write_and_update_cache (github_store.py 166-171: on success
\* the cache keeps the same dict and takes the new sha) and of its caller:
\* the ICT settings form drops the cache `if save_settings(settings)` and
\* shows the error otherwise (advisor_app.py 339-343);
\* set_dept_abbreviation returns what save_settings returned.
AfterSaveSettings(s, op, new_sha) ==
  LET ok == new_sha # None
      s1 == IF ok THEN [s EXCEPT !.settings_cache_sha = new_sha] ELSE s
  IN IF op = "ict_settings"
     THEN EndTurn(Show(IF ok THEN invalidate_cache_settings(s1) ELSE s1,
                       IF ok THEN "Saved." ELSE MsgWriteFailed))
     ELSE EndTurn(Show(s1, IF ok THEN "True" ELSE "False"))

\* Where a turn goes on when its write_json call returns new_sha.
Resume(s, l, new_sha, t) ==
  CASE l.then = "device" ->
         \* check_and_register_device ignores what write_json returned
         StuAddAndSave(s, l.frame, t)
    [] l.then = "stu_save" ->
         IF new_sha # None
         THEN EndTurn([s EXCEPT !.stu_session = Some(l.frame.current),
                                !.stu_stage = "done", !.shown = "recorded"])
         ELSE EndTurn(Show(s, "Could not save your entry"))
    [] l.then = "rep_start" ->
         EndTurn([s EXCEPT !.rep_session = Some(l.frame.session),
                           !.rep_session_sha = new_sha])
    [] l.then = "rep_refresh" ->
         RepAddSection([s EXCEPT !.rep_session_sha = new_sha], l.frame.click)
    [] l.then \in {"rep_add", "rep_edit"} ->
         EndTurn([s EXCEPT !.rep_session = Some(l.frame.session),
                           !.rep_session_sha = new_sha,
                           !.shown = l.frame.msg])
    [] l.then = "rep_delete" ->
         EndTurn([s EXCEPT !.rep_session = Some(l.frame.session),
                           !.rep_session_sha = new_sha,
                           !.show_delete_confirm = None])
    [] l.then = "settings_save" ->
         \* write_and_update_cache, save_settings, then the caller
         AfterSaveSettings(s, l.frame.op, new_sha)
    [] l.then = "users_save" ->
         \* write_and_update_cache, save_users, then the advisor page
         AfterSaveUsers(s, l.frame.op, new_sha # None)

\* In the workflows `ret` keeps what check_and_register_device returned:
\* the (device id, matric) pairs of the calls that returned (True, "").
\* The call returns so when its write_json returns, line 297-298.
Returned(l) ==
  IF l.then = "device"
  THEN ret \cup {<<l.frame.dev_id, strip(l.frame.matric)>>}
  ELSE ret

\* write_json, lines 103-106.
WriteJsonGet(c) ==
  /\ loc[c].pc = "write_json_get"
  /\ LET existing == _gh_get(files, loc[c].path)
     IN loc' = [loc EXCEPT ![c] =
                  [@ EXCEPT !.pc = "write_json_put",
                            !.sha = IF existing # None
                                    THEN Some(existing[1].sha) ELSE @]]
  /\ UNCHANGED <<session, ret, now, files, ss, DEFAULT_SETTINGS>>

\* write_json, lines 108-111.
WriteJsonPut(c) ==
  /\ loc[c].pc = "write_json_put"
  /\ \E http_error \in BOOLEAN :
       LET r == _gh_put(files, loc[c].path, loc[c].data, loc[c].sha, http_error)
           k == Resume(ss[c], loc[c], None, now)
       IN /\ files' = r.files
          /\ IF r.ok
             THEN /\ loc' = [loc EXCEPT ![c] = [@ EXCEPT !.pc = "write_json_sha"]]
                  /\ ss' = ss
                  /\ ret' = ret
             ELSE /\ loc' = [loc EXCEPT ![c] = k.loc]
                  /\ ss' = [ss EXCEPT ![c] = k.ss]
                  /\ ret' = Returned(loc[c])
  /\ UNCHANGED <<session, now, DEFAULT_SETTINGS>>

\* write_json, lines 112-114.
WriteJsonSha(c) ==
  /\ loc[c].pc = "write_json_sha"
  /\ LET result == _gh_get(files, loc[c].path)
         new_sha == IF result # None THEN Some(result[1].sha) ELSE None
         k == Resume(ss[c], loc[c], new_sha, now)
     IN /\ loc' = [loc EXCEPT ![c] = k.loc]
        /\ ss' = [ss EXCEPT ![c] = k.ss]
  /\ ret' = Returned(loc[c])
  /\ UNCHANGED <<session, now, files, DEFAULT_SETTINGS>>

\* "Check for Attendance", lines 183-198.
StuCheck(c) ==
  /\ c \in Students /\ loc[c].pc = "idle" /\ ss[c].stu_stage = "select"
  /\ LET r == load_session(files, School, Department, Level)
     IN ss' = [ss EXCEPT ![c] =
                 IF r.data = None
                 THEN Show(@, "No attendance is currently running")
                 ELSE [@ EXCEPT !.stu_session = r.data, !.stu_stage = "code",
                                !.shown = ""]]
  /\ UNCHANGED <<session, ret, now, files, loc, DEFAULT_SETTINGS>>

\* "Verify", lines 216-231.
StuVerify(c, code) ==
  /\ c \in Students /\ loc[c].pc = "idle" /\ ss[c].stu_stage = "code"
  /\ LET fresh == load_session(files, School, Department, Level).data
     IN ss' = [ss EXCEPT ![c] =
                 IF fresh = None
                 THEN [@ EXCEPT !.stu_stage = "select",
                                !.shown = "The attendance has ended"]
                 ELSE IF validate_token(fresh[1], code, TokenLifetime(files), now)
                 THEN [@ EXCEPT !.stu_session = fresh, !.stu_stage = "entry",
                                !.shown = ""]
                 ELSE Show(@, "Invalid or expired code")]
  /\ UNCHANGED <<session, ret, now, files, loc, DEFAULT_SETTINGS>>

\* "Sign Attendance", lines 269-296: validation, load_session, and
\* check_and_register_device up to its read of the device map.
StuSubmit(c, in) ==
  /\ c \in Students /\ loc[c].pc = "idle" /\ ss[c].stu_stage = "entry"
  /\ LET valid == /\ strip(in.surname) # <<>>
                  /\ strip(in.other_names) # <<>>
                  /\ validate_matric(in.matric)
         r == load_session(files, School, Department, Level)
         dev_id == strip(in.device_id)
         frame == [current |-> r.data[1], sha |-> r.sha, dev_id |-> dev_id,
                   surname |-> in.surname, other_names |-> in.other_names,
                   matric |-> in.matric]
         k == IF ~valid THEN EndTurn(Show(ss[c], "validation"))
              ELSE IF r.data = None
              THEN EndTurn([ss[c] EXCEPT !.stu_stage = "select",
                                         !.shown = "Attendance ended before you submitted"])
              ELSE IF dev_id = <<>>
              THEN StuAddAndSave(ss[c], frame, now)
              ELSE [ss |-> ss[c], loc |-> [pc |-> "device_read", frame |-> frame]]
     IN /\ (valid /\ r.data # None) => r.data[1].next_sn <= AppMaxSn
        /\ ss' = [ss EXCEPT ![c] = k.ss]
        /\ loc' = [loc EXCEPT ![c] = k.loc]
  /\ UNCHANGED <<session, ret, now, files, DEFAULT_SETTINGS>>

\* check_and_register_device, lines 289-297: read the map, refuse a device
\* bound to another matric, else bind it and write the map back.
StuDeviceRead(c) ==
  /\ loc[c].pc = "device_read"
  /\ LET f == loc[c].frame
         path == _device_map_path(School, Department, Level, f.current.course_code)
         r == read_json(files, path)
         dm == IF r.data = None THEN <<>> ELSE r.data[1]
         existing == IF f.dev_id \in DOMAIN dm THEN dm[f.dev_id] ELSE <<>>
         k == IF existing # <<>> /\ existing # strip(f.matric)
              THEN EndTurn(Show(ss[c], MsgDeviceUsed))
              ELSE CallWriteJson(ss[c], path,
                                 (f.dev_id :> strip(f.matric)) @@ dm,
                                 r.sha, "device", f)
     IN /\ ss' = [ss EXCEPT ![c] = k.ss]
        /\ loc' = [loc EXCEPT ![c] = k.loc]
  /\ UNCHANGED <<session, ret, now, files, DEFAULT_SETTINGS>>

\* A widget event of the rep dashboard, with what the rep typed.
Click(kind, sn, in, course_code) ==
  [kind |-> kind, sn |-> sn, surname |-> in.surname,
   other_names |-> in.other_names, matric |-> in.matric,
   course_code |-> course_code]

NoInput == [surname |-> <<>>, other_names |-> <<>>, matric |-> <<>>]

\* The events the page rendered from st.session_state s offers; "poll" is
\* the script's own rerun after its one-second sleep.
RepClicks(s) ==
  {Click("poll", NoSn, NoInput, <<>>)}
  \cup (IF s.rep_session_loaded /\ s.rep_session = None
        THEN {Click("start", NoSn, NoInput, c) : c \in CourseCodes}
        ELSE {})
  \cup (IF s.rep_session # None
        THEN {Click("add", NoSn, in, <<>>) : in \in RepAddInputs}
             \cup {Click("end", NoSn, NoInput, <<>>)}
             \cup UNION {
                    IF s.show_delete_confirm = Some(sn)
                    THEN {Click("yes", sn, NoInput, <<>>),
                          Click("no", sn, NoInput, <<>>)}
                         \cup {Click("edit", sn, in, <<>>) : in \in RepInputs}
                    ELSE {Click("delete", sn, NoInput, <<>>)}
                         \cup {Click("edit", sn, in, <<>>) : in \in RepInputs}
                    : sn \in SnsOfEntries(s.rep_session[1].entries)}
        ELSE {})

\* The events of SpecApp: it follows one session to its end, the rep does
\* not start the next one.
DashboardClicks(s) == {k \in RepClicks(s) : k.kind # "start"}

\* A run of the script starts (lines 366-396).
RepBegin(click, n) ==
  /\ loc[Rep].pc = "idle"
  /\ click \in RepClicks(ss[Rep])
  /\ LET k == IF ~ss[Rep].rep_session_loaded
              THEN [ss |-> ss[Rep], loc |-> [pc |-> "rep_load", click |-> click]]
              ELSE RepTop(Show(ss[Rep], ""), click, TokenLifetime(files), n, now)
     IN /\ ss' = [ss EXCEPT ![Rep] = k.ss]
        /\ loc' = [loc EXCEPT ![Rep] = k.loc]
  /\ UNCHANGED <<session, ret, now, files, DEFAULT_SETTINGS>>

\* Lines 388-393: the one load_session per login.
RepLoad(n) ==
  /\ loc[Rep].pc = "rep_load"
  /\ LET r == load_session(files, School, Department, Level)
         s == [ss[Rep] EXCEPT !.rep_session = r.data,
                              !.rep_session_sha = r.sha,
                              !.rep_session_loaded = TRUE]
         k == RepTop(s, loc[Rep].click, TokenLifetime(files), n, now)
     IN /\ ss' = [ss EXCEPT ![Rep] = k.ss]
        /\ loc' = [loc EXCEPT ![Rep] = k.loc]
  /\ UNCHANGED <<session, ret, now, files, DEFAULT_SETTINGS>>

\* The copy held in st.session_state since the last render.
RepFetch_from_session_state(fs, s) ==
  [data |-> s.rep_session, sha |-> s.rep_session_sha]

\* Lines 467, 519 and 537: the load_session a mutating handler starts with.
RepFetch(fs, s) == load_session(fs, School, Department, Level)

\* Manual add, lines 466-477.
RepAddLoad ==
  /\ loc[Rep].pc = "add_load"
  /\ LET click == loc[Rep].click
         fresh == RepFetch(files, ss[Rep])
         r == add_entry(fresh.data[1], click.surname, click.other_names,
                        click.matric, now)
         k == IF fresh.data = None
              THEN [ss |-> ss[Rep], loc |-> [pc |-> "table_load", click |-> click]]
              ELSE IF r.ok
              THEN CallWriteJson(ss[Rep], SessionPath, r.session, fresh.sha,
                                 "rep_add", [session |-> r.session, msg |-> r.msg])
              ELSE [ss |-> Show(ss[Rep], r.msg),
                    loc |-> [pc |-> "table_load", click |-> click]]
     IN /\ fresh.data # None => fresh.data[1].next_sn <= AppMaxSn
        /\ ss' = [ss EXCEPT ![Rep] = k.ss]
        /\ loc' = [loc EXCEPT ![Rep] = k.loc]
  /\ UNCHANGED <<session, ret, now, files, DEFAULT_SETTINGS>>

\* The table's re-fetch, lines 481-486.
RepTableLoad ==
  /\ loc[Rep].pc = "table_load"
  /\ LET fresh == load_session(files, School, Department, Level)
         s == IF fresh.data # None
              THEN [ss[Rep] EXCEPT !.rep_session = fresh.data,
                                   !.rep_session_sha = fresh.sha]
              ELSE ss[Rep]
         k == RepEntrySection(s, loc[Rep].click)
     IN /\ ss' = [ss EXCEPT ![Rep] = k.ss]
        /\ loc' = [loc EXCEPT ![Rep] = k.loc]
  /\ UNCHANGED <<session, ret, now, files, DEFAULT_SETTINGS>>

\* "Save Edit", lines 519-528.  edit_entry(None, ...) raises.
RepEditLoad ==
  /\ loc[Rep].pc = "edit_load"
  /\ LET click == loc[Rep].click
         fs == RepFetch(files, ss[Rep])
         r == edit_entry(fs.data[1], click.sn, click.surname,
                         click.other_names, click.matric)
         k == IF fs.data = None
              THEN EndTurn(Show(ss[Rep], "exception"))
              ELSE IF r.ok
              THEN CallWriteJson(ss[Rep], SessionPath, r.session, fs.sha,
                                 "rep_edit", [session |-> r.session, msg |-> r.msg])
              ELSE EndTurn(Show(ss[Rep], r.msg))
     IN /\ ss' = [ss EXCEPT ![Rep] = k.ss]
        /\ loc' = [loc EXCEPT ![Rep] = k.loc]
  /\ UNCHANGED <<session, ret, now, files, DEFAULT_SETTINGS>>

\* Delete "Yes", lines 536-544.  delete_entry(None, ...) raises.
RepDeleteLoad ==
  /\ loc[Rep].pc = "delete_load"
  /\ LET click == loc[Rep].click
         fs == RepFetch(files, ss[Rep])
         r == delete_entry(fs.data[1], click.sn)
         k == IF fs.data = None
              THEN EndTurn(Show(ss[Rep], "exception"))
              ELSE IF r.ok
              THEN CallWriteJson(ss[Rep], SessionPath, r.session, fs.sha,
                                 "rep_delete", [session |-> r.session])
              ELSE EndTurn([ss[Rep] EXCEPT !.show_delete_confirm = None])
     IN /\ ss' = [ss EXCEPT ![Rep] = k.ss]
        /\ loc' = [loc EXCEPT ![Rep] = k.loc]
  /\ UNCHANGED <<session, ret, now, files, DEFAULT_SETTINGS>>

\* The copy of the session kept in st.session_state.
EndRead_from_session_state(fs, s) ==
  [data |-> s.rep_session, sha |-> s.rep_session_sha]

\* Line 563: the copy of the session the End handler exports.
EndRead(fs, s) == load_session(fs, School, Department, Level)

\* "End & Push to LAVA", lines 562-566 and 578-579: the fresh read.
RepEndLoad ==
  /\ loc[Rep].pc = "end_load"
  /\ LET final == EndRead(files, ss[Rep])
         k == IF final.data # None
              THEN [ss |-> ss[Rep],
                    loc |-> [pc |-> "push_get", final |-> final.data[1]]]
              ELSE EndTurn(Show(ss[Rep], "Session not found."))
     IN /\ ss' = [ss EXCEPT ![Rep] = k.ss]
        /\ loc' = [loc EXCEPT ![Rep] = k.loc]
  /\ UNCHANGED <<session, ret, now, files, DEFAULT_SETTINGS>>

\* push_csv_to_lava, lines 130-131.
RepPushGet ==
  /\ loc[Rep].pc = "push_get"
  /\ LET existing == _gh_get(files, LavaPath(loc[Rep].final))
     IN loc' = [loc EXCEPT ![Rep] =
                  [pc |-> "push_put", final |-> @.final,
                   sha |-> IF existing # None THEN Some(existing[1].sha) ELSE None]]
  /\ UNCHANGED <<session, ret, now, files, ss, DEFAULT_SETTINGS>>

\* An End handler that goes on to delete_session whatever the push gave.
AfterPush_always_delete(s, ok) == [ss |-> s, loc |-> [pc |-> "delete_get"]]

\* Lines 567-568 and 576-577: only a pushed export lets the handler go on
\* to delete_session; a failed push is reported and the turn ends.
AfterPush(s, ok) ==
  IF ok
  THEN [ss |-> s, loc |-> [pc |-> "delete_get"]]
  ELSE EndTurn(Show(s, "Push failed"))

\* push_csv_to_lava, lines 132-135, and app.py lines 566-567.
RepPushPut ==
  /\ loc[Rep].pc = "push_put"
  /\ \E http_error \in BOOLEAN :
       LET final == loc[Rep].final
           r == _gh_put(files, LavaPath(final), session_to_csv(final),
                        loc[Rep].sha, http_error)
           k == AfterPush(ss[Rep], r.ok)
       IN /\ files' = r.files
          /\ loc' = [loc EXCEPT ![Rep] = k.loc]
          /\ ss' = [ss EXCEPT ![Rep] = k.ss]
  /\ UNCHANGED <<session, ret, now, DEFAULT_SETTINGS>>

\* Lines 569-575: the dashboard forgets the session.
RepSessionEnded(s) ==
  [s EXCEPT !.rep_session = None, !.rep_session_sha = None,
            !.rep_session_loaded = TRUE, !.shown = "Done"]

\* delete_session -> delete_file, lines 119-121.
RepDeleteGet ==
  /\ loc[Rep].pc = "delete_get"
  /\ LET result == _gh_get(files, SessionPath)
     IN IF result = None
        THEN /\ loc' = [loc EXCEPT ![Rep] = Idle]
             /\ ss' = [ss EXCEPT ![Rep] = RepSessionEnded(@)]
        ELSE /\ loc' = [loc EXCEPT ![Rep] =
                          [pc |-> "delete_delete", sha |-> result[1].sha]]
             /\ ss' = ss
  /\ UNCHANGED <<session, ret, now, files, DEFAULT_SETTINGS>>

\* A delete_session that removes the device maps with the session document.
RepDeleteDelete_with_device_maps ==
  /\ loc[Rep].pc = "delete_delete"
  /\ \E http_error \in BOOLEAN :
       LET r == _gh_delete(files, SessionPath, loc[Rep].sha, http_error)
       IN files' = IF r.ok
                   THEN [q \in {p \in DOMAIN r.files : Len(p) # 6} |-> r.files[q]]
                   ELSE r.files
  /\ loc' = [loc EXCEPT ![Rep] = Idle]
  /\ ss' = [ss EXCEPT ![Rep] = RepSessionEnded(@)]
  /\ UNCHANGED <<session, ret, now, DEFAULT_SETTINGS>>

\* delete_file, line 122; app.py line 568 drops what it returns.
RepDeleteDelete ==
  /\ loc[Rep].pc = "delete_delete"
  /\ \E http_error \in BOOLEAN :
       LET r == _gh_delete(files, SessionPath, loc[Rep].sha, http_error)
       IN files' = r.files
  /\ loc' = [loc EXCEPT ![Rep] = Idle]
  /\ ss' = [ss EXCEPT ![Rep] = RepSessionEnded(@)]
  /\ UNCHANGED <<session, ret, now, DEFAULT_SETTINGS>>

\* Time passes, long enough for the token to expire.
AppTick ==
  /\ now + TokenLifetime(files) <= AppMaxTime
  /\ now' = now + TokenLifetime(files)
  /\ UNCHANGED <<session, ret, files, ss, loc, DEFAULT_SETTINGS>>

\* The settings document as the ICT account saved it: the shortest token
\* lifetime the settings form allows.
InitSettings == [TOKEN_LIFETIME |-> 3, dept_abbreviations |-> <<>>]

\* A session is running, started at time 0; its rep has logged in on a new
\* browser session, and a student has opened the page.
InitApp ==
  /\ session = <<>> /\ ret = <<>>
  /\ now = 0
  /\ DEFAULT_SETTINGS = InitDefaultSettings
  /\ \E course_code \in CourseCodes :
       files = (SETTINGS_PATH :> InitSettings)
               @@ (SessionPath :> NewSession(course_code, Rep, 42, 0))
  /\ ss = [c \in AppClients |->
             IF c = Rep
             THEN [rep_user |-> [username |-> Rep, role |-> "rep",
                                 school |-> School, department |-> Department,
                                 level |-> Level],
                   rep_session |-> None, rep_session_sha |-> None,
                   rep_session_loaded |-> FALSE,
                   show_delete_confirm |-> None, shown |-> ""]
             ELSE [stu_stage |-> "select", stu_session |-> None, shown |-> ""]]
  /\ loc = [c \in AppClients |-> Idle]

NextApp ==
  \/ AppTick
  \/ StuCheck("s1")
  \/ \E code \in {generate_token(n) : n \in AppRandInts} : StuVerify("s1", code)
  \/ \E in \in AppSubmitInputs : StuSubmit("s1", in)
  \/ \E c \in AppClients : WriteJsonGet(c)
  \/ \E c \in AppClients : WriteJsonPut(c)
  \/ \E c \in AppClients : WriteJsonSha(c)
  \/ \E n \in RepRandInts : \E click \in DashboardClicks(ss[Rep]) :
       RepBegin(click, n)
  \/ \E n \in RepRandInts : RepLoad(n)
  \/ RepAddLoad
  \/ RepTableLoad
  \/ RepEditLoad
  \/ RepDeleteLoad
  \/ RepEndLoad
  \/ RepPushGet
  \/ RepPushPut
  \/ RepDeleteGet
  \/ RepDeleteDelete

SpecApp == InitApp /\ [][NextApp]_vars

\* A session is running, started by the rep at time 0, and two students
\* have opened the page.
InitDevice ==
  /\ session = <<>> /\ ret = {}
  /\ now = 0
  /\ DEFAULT_SETTINGS = InitDefaultSettings
  /\ \E course_code \in CourseCodes :
       files = (SETTINGS_PATH :> InitSettings)
               @@ (SessionPath :> NewSession(course_code, Rep, 42, 0))
  /\ ss = [c \in Students |->
             [stu_stage |-> "select", stu_session |-> None, shown |-> ""]]
  /\ loc = [c \in Students |-> Idle]

NextDevice ==
  \/ \E c \in Students : StuCheck(c)
  \/ \E c \in Students, code \in {generate_token(n) : n \in AppRandInts} :
       StuVerify(c, code)
  \/ \E c \in Students, in \in SubmitInputs : StuSubmit(c, in)
  \/ \E c \in Students : StuDeviceRead(c)
  \/ \E c \in Students : WriteJsonGet(c)
  \/ \E c \in Students : WriteJsonPut(c)
  \/ \E c \in Students : WriteJsonSha(c)

SpecDevice == InitDevice /\ [][NextDevice]_vars

(***************************************************************************)
(* SpecStart: the dashboard from login, with nothing in the store yet, and *)
(* a second browser session of the department's rep that rendered the      *)
(* start form.  Sessions are started, filled by manual adds and ended.     *)
(***************************************************************************)
Rep2 == "rep1_second_browser"

StartClients == {Rep, Rep2}

\* The events SpecStart follows.
StartClicks(s) == {k \in RepClicks(s) : k.kind \in {"poll", "start", "add", "end"}}

\* "Start Attendance" in the second browser session, lines 398-417.
OtherStart(course_code, n) ==
  /\ loc[Rep2].pc = "idle"
  /\ ss[Rep2].rep_session_loaded /\ ss[Rep2].rep_session = None
  /\ LET k == RepTop(Show(ss[Rep2], ""),
                     Click("start", NoSn, NoInput, course_code),
                     TokenLifetime(files), n, now)
     IN /\ ss' = [ss EXCEPT ![Rep2] = k.ss]
        /\ loc' = [loc EXCEPT ![Rep2] = k.loc]
  /\ UNCHANGED <<session, ret, now, files, DEFAULT_SETTINGS>>

InitStart ==
  /\ session = <<>> /\ ret = <<>>
  /\ now = 0
  /\ DEFAULT_SETTINGS = InitDefaultSettings
  /\ files = (SETTINGS_PATH :> InitSettings)
  /\ ss = [c \in StartClients |->
             [rep_user |-> [username |-> Rep, role |-> "rep",
                            school |-> School, department |-> Department,
                            level |-> Level],
              rep_session |-> None, rep_session_sha |-> None,
              rep_session_loaded |-> (c = Rep2),
              show_delete_confirm |-> None, shown |-> ""]]
  /\ loc = [c \in StartClients |-> Idle]

NextStart ==
  \/ \E n \in AppRandInts : \E click \in StartClicks(ss[Rep]) : RepBegin(click, n)
  \/ \E n \in AppRandInts : RepLoad(n)
  \/ \E n \in AppRandInts, course_code \in CourseCodes : OtherStart(course_code, n)
  \/ \E c \in StartClients : WriteJsonGet(c)
  \/ \E c \in StartClients : WriteJsonPut(c)
  \/ \E c \in StartClients : WriteJsonSha(c)
  \/ RepAddLoad
  \/ RepTableLoad
  \/ RepEndLoad
  \/ RepPushGet
  \/ RepPushPut
  \/ RepDeleteGet
  \/ RepDeleteDelete

SpecStart == InitStart /\ [][NextStart]_vars

(***************************************************************************)
(* SpecFault: SpecApp with the two things the handlers do not provide for: *)
(* a store read that fails, and a session ended from elsewhere.            *)
(***************************************************************************)
\* What the page shows when an exception leaves the script.
UnhandledFault == "exception"

\* The steps that send a PUT or a DELETE; every other step begins with a
\* GET.  _gh_put and _gh_delete catch HTTPError, _gh_get re-raises it.
WritingPcs == {"write_json_put", "push_put", "delete_delete"}

\* The GET that c's next step makes gets an HTTP error other than 404:
\* _gh_get raises (github_store.py line 48) and nothing catches it.  A
\* browser session that is idle makes the GET when its next run starts: a
\* student's Check, Verify or Sign, the dashboard's first load.
ReadFault(c) ==
  /\ loc[c].pc \notin WritingPcs
  /\ loc[c].pc = "idle" =>
       IF c = Rep THEN ~ss[c].rep_session_loaded
                  ELSE ss[c].stu_stage # "done"
  /\ loc' = [loc EXCEPT ![c] = Idle]
  /\ ss' = [ss EXCEPT ![c] = Show(@, UnhandledFault)]
  /\ UNCHANGED <<session, ret, now, files, DEFAULT_SETTINGS>>

\* The session is ended in another browser session of the rep (lines
\* 562-575 there): its export is pushed and its document deleted.
OtherEnd ==
  /\ SessionPath \in DOMAIN files
  /\ LET final == files[SessionPath]
         pushed == (LavaPath(final) :> session_to_csv(final)) @@ files
     IN files' = [p \in DOMAIN pushed \ {SessionPath} |-> pushed[p]]
  /\ UNCHANGED <<session, ret, now, ss, loc, DEFAULT_SETTINGS>>

\* The steps of SpecApp with the clock standing still, and the two above.
NextFault ==
  \/ StuCheck("s1")
  \/ \E code \in {generate_token(n) : n \in AppRandInts} : StuVerify("s1", code)
  \/ \E in \in AppSubmitInputs : StuSubmit("s1", in)
  \/ \E c \in AppClients : WriteJsonPut(c)
  \/ \E c \in AppClients : WriteJsonSha(c)
  \/ \E n \in RepRandInts : \E click \in DashboardClicks(ss[Rep]) :
       RepBegin(click, n)
  \/ \E n \in RepRandInts : RepLoad(n)
  \/ RepAddLoad
  \/ RepTableLoad
  \/ RepEditLoad
  \/ RepDeleteLoad
  \/ RepEndLoad
  \/ RepPushGet
  \/ RepPushPut
  \/ RepDeleteGet
  \/ RepDeleteDelete
  \/ \E c \in AppClients : ReadFault(c)
  \/ OtherEnd

SpecFault == InitApp /\ [][NextFault]_vars

(***************************************************************************)
(* SpecStale: the session of SpecApp with the rep's dashboard left open    *)
(* while the session is ended from another browser session of the rep      *)
(* (OtherEnd).  The clock runs over two token lifetimes.                   *)
(***************************************************************************)
StaleMaxTime == 6    \* the clock of SpecStale runs from 0 to StaleMaxTime

\* Time passes, long enough for the token to expire.
StaleTick ==
  /\ now + TokenLifetime(files) <= StaleMaxTime
  /\ now' = now + TokenLifetime(files)
  /\ UNCHANGED <<session, ret, files, ss, loc, DEFAULT_SETTINGS>>

NextStale ==
  \/ StaleTick
  \/ OtherEnd
  \/ StuCheck("s1")
  \/ \E code \in {generate_token(n) : n \in AppRandInts} : StuVerify("s1", code)
  \/ \E in \in AppSubmitInputs : StuSubmit("s1", in)
  \/ \E c \in AppClients : WriteJsonGet(c)
  \/ \E c \in AppClients : WriteJsonPut(c)
  \/ \E c \in AppClients : WriteJsonSha(c)
  \/ \E n \in RepRandInts : RepBegin(Click("poll", NoSn, NoInput, <<>>), n)
  \/ \E n \in RepRandInts : RepLoad(n)
  \/ RepTableLoad

SpecStale == InitApp /\ [][NextStale]_vars

(***************************************************************************)
(* SpecPolling: the session of SpecApp with the rep's dashboard left open. *)
(* The script of the dashboard ends with time.sleep(1); st.rerun() (app.py *)
(* 588-592), so its runs follow one another without any click, and each    *)
(* run goes through its requests to its end: weak fairness of the rep's    *)
(* steps.  A PUT that carries the sha of the stored document is answered   *)
(* by the store with success or with an HTTP error; that such writes       *)
(* succeed in the end is strong fairness of the accepted PUT.  The student *)
(* and the clock move as in SpecApp, with no fairness.  Every save here    *)
(* carries the sha of a load, so write_json's own GET for the sha (lines   *)
(* 103-106) is not made.                                                   *)
(***************************************************************************)
PollClick == Click("poll", NoSn, NoInput, <<>>)

\* The steps of a run of the dashboard without a click.
RepPollStep ==
  \/ \E n \in RepRandInts : RepBegin(PollClick, n)
  \/ \E n \in RepRandInts : RepLoad(n)
  \/ RepTableLoad
  \/ WriteJsonPut(Rep)
  \/ WriteJsonSha(Rep)

\* The store accepts the rep's PUT.
RepPutAccepted == WriteJsonPut(Rep) /\ files' # files

NextPolling ==
  \/ AppTick
  \/ StuCheck("s1")
  \/ \E code \in {generate_token(n) : n \in AppRandInts} : StuVerify("s1", code)
  \/ \E in \in AppSubmitInputs : StuSubmit("s1", in)
  \/ WriteJsonPut("s1")
  \/ WriteJsonSha("s1")
  \/ RepPollStep

SpecPolling ==
  /\ InitApp /\ [][NextPolling]_vars
  /\ WF_vars(RepPollStep)
  /\ SF_vars(RepPutAccepted)

(***************************************************************************)
(* The pages of the advisor portal (advisor_app.py).  Every script run of  *)
(* the ICT page and of the advisor page drops the '__users' cache and      *)
(* loads the directory again where its first tab renders (lines 212-213,   *)
(* 386-387; the advisor's password tab does so again at 442-444); the      *)
(* handler of the click then works on that copy.  The load is one step     *)
(* and the handler's call the next, so that another session's write can    *)
(* fall between them.                                                      *)
(***************************************************************************)
Usernames == {"jdoe"}

OtherDepartment == "Physics"

\* The record create_user stores, lines 115-124.
UserRecord(username, hash, role, school, department, level, created_by, t) ==
  [username |-> username, password_hash |-> hash, role |-> role,
   school |-> school, department |-> department, level |-> level,
   created_by |-> created_by, created_at |-> t]

\* get_reps_for_dept and get_advisors_for_dept, core.py 142-154, as the
\* usernames of the records they return.
get_for_dept(users, role, school, department) ==
  {u \in DOMAIN users : /\ users[u].role = role
                         /\ users[u].school = school
                         /\ users[u].department = department}

\* get_all_advisors, core.py 156-158.
get_all_advisors(users) == {u \in DOMAIN users : users[u].role = "advisor"}

\* A click on the ICT page or the advisor page.
UserClick(kind, username, department) ==
  [kind |-> kind, username |-> username, department |-> department]

\* The events of the ICT page: "poll" is a run without a handler.
IctClicks ==
  {UserClick("poll", "", "")}
  \cup {UserClick(k, u, "") : k \in {"ict_reset", "ict_delete"}, u \in Usernames}

\* A script run starts: the first tab drops the cache and loads the
\* directory; a run without a handler ends there.
UsersBegin(c, click) ==
  /\ loc[c].pc = "idle"
  /\ LET s1 == cached_read_users(invalidate_cache(Show(ss[c], "")), files)
     IN /\ ss' = [ss EXCEPT ![c] = s1]
        /\ loc' = [loc EXCEPT ![c] =
                     IF click.kind = "poll" THEN Idle
                     ELSE [pc |-> "users_handler", click |-> click]]
  /\ UNCHANGED <<session, ret, now, files, DEFAULT_SETTINGS>>

\* save_users(users) from create_user, update_password or delete_user, which
\* have changed the cached dict in place.
SaveUsers(s, users, new, op) ==
  CallWriteJson([s EXCEPT !.users_cache = Some(new)], USERS_PATH, new,
                s.users_cache_sha, "users_save", [op |-> op, loaded |-> users])

\* create_user, core.py 110-126.
create_user(s, username, hash, role, school, department, level, created_by, t) ==
  LET users == s.users_cache[1]
  IN IF username \in DOMAIN users
     THEN EndTurn(Show(s, MsgUserExists))
     ELSE SaveUsers(s, users,
                    (username :> UserRecord(username, hash, role, school,
                                            department, level, created_by, t))
                      @@ users,
                    "create_user")

\* update_password, core.py 128-133, called from handler op.
update_password(s, username, hash, op) ==
  LET users == s.users_cache[1]
  IN IF username \notin DOMAIN users
     THEN AfterSaveUsers(s, op, FALSE)
     ELSE SaveUsers(s, users, [users EXCEPT ![username].password_hash = hash], op)

\* delete_user, core.py 135-140.
delete_user(s, username) ==
  LET users == s.users_cache[1]
  IN IF username \notin DOMAIN users
     THEN AfterSaveUsers(s, "delete_user", FALSE)
     ELSE SaveUsers(s, users, [u \in DOMAIN users \ {username} |-> users[u]],
                    "delete_user")

\* The handlers of the ICT page: the reset and delete buttons exist for the
\* advisors of the list just loaded (lines 216-269); "Create Advisor" takes
\* the school and department selected (lines 306-322).
IctHandler(s, click, t) ==
  LET users == s.users_cache[1]
  IN IF click.kind = "ict_create"
     THEN create_user(s, click.username, Hash1, "advisor", School,
                      click.department, None, "ICT", t)
     ELSE IF click.username \notin get_all_advisors(users)
     THEN EndTurn(s)
     ELSE IF click.kind = "ict_reset"
     THEN update_password(s, click.username, Hash2, "update_password")
     ELSE delete_user(s, click.username)

\* The levels get_levels offers for the advisor's department.
AdvisorLevels == {Level}

\* The handlers of the advisor page, working on the directory the tab has
\* just loaded: the delete and reset buttons exist for the reps of the
\* advisor's school and department (lines 386, 404-409, 444, 452-472), the
\* co-advisor reset for the other advisors of it (lines 445-447, 482-497),
\* "Assign Rep" for the levels without a rep (lines 411-433), and "Change
\* My Password" tests the password typed against the advisor record of the
\* browser session (lines 507-517).
AdvisorHandler(s, click, t) ==
  LET adv   == s.adv_user[1]
      users == s.users_cache[1]
      reps  == get_for_dept(users, "rep", adv.school, adv.department)
      co_advs == get_for_dept(users, "advisor", adv.school, adv.department)
                   \ {adv.username}
      occupied == {users[r].level : r \in reps}
  IN CASE click.kind = "adv_assign" ->
            IF Some(click.level) \in occupied
            THEN EndTurn(s)
            ELSE create_user(s, click.username, Hash1, "rep", adv.school,
                             adv.department, Some(click.level), adv.username, t)
       [] click.kind = "adv_delete_rep" ->
            IF click.username \in reps
            THEN delete_user(s, click.username) ELSE EndTurn(s)
       [] click.kind = "adv_reset_rep" ->
            IF click.username \in reps
            THEN update_password(s, click.username, Hash2, "update_password")
            ELSE EndTurn(s)
       [] click.kind = "adv_reset_co" ->
            IF click.username \in co_advs
            THEN update_password(s, click.username, Hash2, "update_password")
            ELSE EndTurn(s)
       [] click.kind = "adv_change_my" ->
            IF ~verify_password(click.old_p, adv.password_hash)
            THEN EndTurn(Show(s, "Current password is incorrect."))
            ELSE update_password(s, adv.username, Hash2, "change_my_password")

\* The handler of the run's click is reached.
UsersHandler(c) ==
  /\ loc[c].pc = "users_handler"
  /\ LET k == IF ss[c].portal_role = "ict"
              THEN IctHandler(ss[c], loc[c].click, now)
              ELSE AdvisorHandler(ss[c], loc[c].click, now)
     IN /\ ss' = [ss EXCEPT ![c] = k.ss]
        /\ loc' = [loc EXCEPT ![c] = k.loc]
  /\ UNCHANGED <<session, ret, now, files, DEFAULT_SETTINGS>>

(***************************************************************************)
(* SpecUsers: two browser sessions logged in as ICT create, reset and      *)
(* delete advisor accounts on a new deployment (no users.json yet).        *)
(***************************************************************************)
IctClients == {"ict", "ict2"}

\* The department each ICT session has selected in "Create Advisor".
IctDepartment == ("ict" :> Department) @@ ("ict2" :> OtherDepartment)

IctSession ==
  [portal_role |-> "ict", adv_user |-> None,
   users_cache |-> None, users_cache_sha |-> None, shown |-> ""]

InitUsers ==
  /\ session = <<>> /\ ret = <<>>
  /\ now = 0
  /\ DEFAULT_SETTINGS = InitDefaultSettings
  /\ files = (SETTINGS_PATH :> InitSettings)
  /\ ss = [c \in IctClients |-> IctSession]
  /\ loc = [c \in IctClients |-> Idle]

NextUsers ==
  \/ \E c \in IctClients : \E click \in IctClicks : UsersBegin(c, click)
  \/ \E c \in IctClients, u \in Usernames :
       UsersBegin(c, UserClick("ict_create", u, IctDepartment[c]))
  \/ \E c \in IctClients : UsersHandler(c)
  \/ \E c \in IctClients : WriteJsonGet(c)
  \/ \E c \in IctClients : WriteJsonPut(c)
  \/ \E c \in IctClients : WriteJsonSha(c)

SpecUsers == InitUsers /\ [][NextUsers]_vars

(***************************************************************************)
(* SpecAdvisor: an advisor of Computer Science is logged in (adv_user is   *)
(* the record authenticate_user returned at login, advisor_app.py 157-160) *)
(* while the ICT account manages the advisors.  users.json exists, so      *)
(* every save carries the sha of its load and write_json's own GET for the *)
(* sha (lines 103-106) is never made.                                      *)
(***************************************************************************)
Advisor == "advisor1"

AdvisorName == "adv1"

CoAdvisorName == "co1"

RepName == "jdoe"

AdvisorClients == {"ict", Advisor}

\* The advisor's record at login.
AdvisorAtLogin ==
  UserRecord(AdvisorName, Hash1, "advisor", School, Department, None, "ICT", 0)

AdvisorSession ==
  [portal_role |-> "advisor", adv_user |-> Some(AdvisorAtLogin),
   users_cache |-> None, users_cache_sha |-> None, shown |-> ""]

\* The events of the ICT page: the advisor is removed, reset, or an
\* account is created, in the advisor's department or in another one.
IctAdvisorClicks ==
  {UserClick("ict_delete", AdvisorName, ""),
   UserClick("ict_create", AdvisorName, OtherDepartment),
   UserClick("ict_create", CoAdvisorName, Department)}

\* The events of the advisor page.
AdvisorClicks ==
  {[kind |-> "adv_assign", username |-> RepName, level |-> l] :
      l \in AdvisorLevels}
  \cup {[kind |-> k, username |-> RepName] :
          k \in {"adv_delete_rep", "adv_reset_rep"}}
  \cup {[kind |-> "adv_reset_co", username |-> CoAdvisorName]}
  \cup {[kind |-> "adv_change_my", old_p |-> p] : p \in {"pw1", "pw2"}}

InitAdvisor ==
  /\ session = <<>> /\ ret = <<>>
  /\ now = 0
  /\ DEFAULT_SETTINGS = InitDefaultSettings
  /\ files = (SETTINGS_PATH :> InitSettings)
             @@ (USERS_PATH :> (AdvisorName :> AdvisorAtLogin))
  /\ ss = ("ict" :> IctSession) @@ (Advisor :> AdvisorSession)
  /\ loc = [c \in AdvisorClients |-> Idle]

NextAdvisor ==
  \/ \E click \in IctAdvisorClicks : UsersBegin("ict", click)
  \/ \E click \in AdvisorClicks : UsersBegin(Advisor, click)
  \/ \E c \in AdvisorClients : UsersHandler(c)
  \/ \E c \in AdvisorClients : WriteJsonPut(c)
  \/ \E c \in AdvisorClients : WriteJsonSha(c)

SpecAdvisor == InitAdvisor /\ [][NextAdvisor]_vars

(***************************************************************************)
(* SpecAuth: the login form of one browser session (app.py 354,            *)
(* advisor_app.py 157) while other sessions change the stored directory.   *)
(***************************************************************************)
LoginClient == "login1"

AuthUsernames == {"jdoe", "amy"}

Passwords == {"pw1", "pw2", "pw3"}

Roles == {"advisor", "rep"}


\* authenticate_user without the role test.
authenticate_user_any_role(users, username, password, role) ==
  IF /\ username \in DOMAIN users
     /\ verify_password(password, users[username].password_hash)
  THEN Some(users[username])
  ELSE None

\* authenticate_user, lines 99-105, on the dict load_users() returned.
authenticate_user(users, username, password, role) ==
  IF /\ username \in DOMAIN users
     /\ users[username].role = role
     /\ verify_password(password, users[username].password_hash)
  THEN Some(users[username])
  ELSE None

\* The records an account of the directory can be.
UserRecords(username) ==
  {[username |-> username, password_hash |-> h, role |-> r,
    school |-> School, department |-> Department] :
     h \in {Hash1, Hash2}, r \in Roles}

\* The directories users.json can hold: jdoe and amy, each with or without
\* an account.
Directories ==
  {<<>>}
  \cup {("jdoe" :> j) : j \in UserRecords("jdoe")}
  \cup {("amy" :> a) : a \in UserRecords("amy")}
  \cup {("jdoe" :> j) @@ ("amy" :> a) :
          j \in UserRecords("jdoe"), a \in {x \in UserRecords("amy") : x.role = "rep"}}

\* "Login": authenticate_user(uname, pwd, role).
Authenticate(c, username, password, role) ==
  /\ LET s1 == cached_read_users(ss[c], files)
     IN /\ ss' = [ss EXCEPT ![c] = s1]
        /\ ret' = [op |-> "authenticate_user", username |-> username,
                   password |-> password, role |-> role,
                   value |-> authenticate_user(s1.users_cache[1], username,
                                               password, role)]
  /\ UNCHANGED <<session, now, files, loc, DEFAULT_SETTINGS>>

\* cached_read_json("__users", USERS_PATH, default={}) as load_users calls
\* it; ret keeps the pair it returned, whether the key was cached and what
\* the store held at the call.
CachedReadJson(c) ==
  /\ LET s1 == cached_read_users(ss[c], files)
     IN /\ ss' = [ss EXCEPT ![c] = s1]
        /\ ret' = [op |-> "cached_read_json",
                   cached |-> ss[c].users_cache # None,
                   stored |-> read_json(files, USERS_PATH),
                   value |-> [data |-> s1.users_cache[1],
                              sha |-> s1.users_cache_sha]]
  /\ UNCHANGED <<session, now, files, loc, DEFAULT_SETTINGS>>

\* An account change of another browser session is stored.
OtherSaveUsers(users) ==
  /\ files' = (USERS_PATH :> users) @@ files
  /\ UNCHANGED <<session, ret, now, ss, loc, DEFAULT_SETTINGS>>

InitAuth ==
  /\ session = <<>> /\ ret = [op |-> "none"]
  /\ now = 0
  /\ DEFAULT_SETTINGS = InitDefaultSettings
  /\ \/ files = (SETTINGS_PATH :> InitSettings)
     \/ \E users \in Directories :
          files = (USERS_PATH :> users) @@ (SETTINGS_PATH :> InitSettings)
  /\ ss = [c \in {LoginClient} |->
             [users_cache |-> None, users_cache_sha |-> None, shown |-> ""]]
  /\ loc = [c \in {LoginClient} |-> Idle]

NextAuth ==
  \/ \E u \in AuthUsernames, pw \in Passwords, r \in Roles :
       Authenticate(LoginClient, u, pw, r)
  \/ CachedReadJson(LoginClient)
  \/ \E users \in Directories : OtherSaveUsers(users)

SpecAuth == InitAuth /\ [][NextAuth]_vars

(***************************************************************************)
(* SpecLifecycle: device Dev1 was bound to matric M1 by the first entry of *)
(* the running session.  Another student then signs from Dev1 or from a    *)
(* second device while the rep works on the session, ends it and starts    *)
(* the next one for the same course code.                                  *)
(***************************************************************************)
LifeStudent == "s2"

LifeClients == {LifeStudent, Rep}

Dev2 == <<"d", "2">>

\* What the student may submit: matric M2, from the bound device or from a
\* device not seen before.
LifeInputs ==
  {[surname |-> <<"i">>, other_names |-> <<"b">>, matric |-> M2, device_id |-> d] :
     d \in {Dev1, Dev2}}

\* The events SpecLifecycle follows.
LifeClicks(s) ==
  {k \in RepClicks(s) : k.kind \in {"poll", "start", "end", "delete", "yes"}}

\* The session after the entry of matric M1 was saved.
SessionWithEntry(course_code) ==
  add_entry(NewSession(course_code, Rep, 42, 0), <<"a">>, <<"b">>, M1, 0).session

\* The device maps the store holds.
DeviceMaps(fs) == [p \in {q \in DOMAIN fs : Len(q) = 6} |-> fs[p]]

InitLife ==
  /\ session = <<>> /\ ret = {}
  /\ now = 0
  /\ DEFAULT_SETTINGS = InitDefaultSettings
  /\ \E course_code \in CourseCodes :
       files = (SETTINGS_PATH :> InitSettings)
               @@ (SessionPath :> SessionWithEntry(course_code))
               @@ (_device_map_path(School, Department, Level,
                                    upper(strip(course_code)))
                     :> (Dev1 :> M1))
  /\ ss = [c \in LifeClients |->
             IF c = Rep
             THEN [rep_user |-> [username |-> Rep, role |-> "rep",
                                 school |-> School, department |-> Department,
                                 level |-> Level],
                   rep_session |-> None, rep_session_sha |-> None,
                   rep_session_loaded |-> FALSE,
                   show_delete_confirm |-> None, shown |-> ""]
             ELSE [stu_stage |-> "select", stu_session |-> None, shown |-> ""]]
  /\ loc = [c \in LifeClients |-> Idle]

NextLife ==
  \/ StuCheck(LifeStudent)
  \/ \E code \in {generate_token(n) : n \in AppRandInts} :
       StuVerify(LifeStudent, code)
  \/ \E in \in LifeInputs : StuSubmit(LifeStudent, in)
  \/ StuDeviceRead(LifeStudent)
  \/ \E c \in LifeClients : WriteJsonGet(c)
  \/ \E c \in LifeClients : WriteJsonPut(c)
  \/ \E c \in LifeClients : WriteJsonSha(c)
  \/ \E n \in RepRandInts : \E click \in LifeClicks(ss[Rep]) : RepBegin(click, n)
  \/ \E n \in RepRandInts : RepLoad(n)
  \/ RepTableLoad
  \/ RepDeleteLoad
  \/ RepEndLoad
  \/ RepPushGet
  \/ RepPushPut
  \/ RepDeleteGet
  \/ RepDeleteDelete

SpecLifecycle == InitLife /\ [][NextLife]_vars

(***************************************************************************)
(* SpecRestart: SpecLifecycle with the clock running, so that the session  *)
(* started after an End has a later started_at than the one it follows.    *)
(***************************************************************************)
RestartClicks(s) == {k \in RepClicks(s) : k.kind \in {"poll", "start", "end"}}

NextRestart ==
  \/ AppTick
  \/ StuCheck(LifeStudent)
  \/ \E code \in {generate_token(n) : n \in AppRandInts} :
       StuVerify(LifeStudent, code)
  \/ \E in \in LifeInputs : StuSubmit(LifeStudent, in)
  \/ StuDeviceRead(LifeStudent)
  \/ \E c \in LifeClients : WriteJsonGet(c)
  \/ \E c \in LifeClients : WriteJsonPut(c)
  \/ \E c \in LifeClients : WriteJsonSha(c)
  \/ \E n \in RepRandInts : \E click \in RestartClicks(ss[Rep]) :
       RepBegin(click, n)
  \/ \E n \in RepRandInts : RepLoad(n)
  \/ RepTableLoad
  \/ RepEndLoad
  \/ RepPushGet
  \/ RepPushPut
  \/ RepDeleteGet
  \/ RepDeleteDelete

SpecRestart == InitLife /\ [][NextRestart]_vars

(***************************************************************************)
(* SpecSettings: browser sessions of one server process read and edit the  *)
(* settings of a new deployment (no settings.json in the store yet).       *)
(***************************************************************************)
SettingsClients == {"ict", "ict2"}

\* What the ICT form's number_input is set to (min_value=3, max_value=300).
LifetimeInputs == {30}

AbbreviationInputs == {<<" ", "a", "b">>}

\* A page renders: load_settings().
SettingsRender(c) ==
  /\ loc[c].pc = "idle"
  /\ ss[c].settings_cache = None
  /\ ss' = [ss EXCEPT ![c] = Show(cached_read_settings(@, files), "")]
  /\ UNCHANGED <<session, ret, now, files, loc, DEFAULT_SETTINGS>>

\* A turn that changes the dict it got from load_settings() in place and
\* calls save_settings with it.
SaveSettings(c, op, new) ==
  LET s1 == cached_read_settings(ss[c], files)
      entry == s1.settings_cache[1]
      k == CallWriteJson(
             IF entry.obj = "DEFAULT_SETTINGS"
             THEN s1
             ELSE [s1 EXCEPT !.settings_cache = Some([entry EXCEPT !.value = new])],
             SETTINGS_PATH, new, s1.settings_cache_sha, "settings_save",
             [op |-> op, loaded |-> Deref(entry)])
  IN /\ DEFAULT_SETTINGS' = IF entry.obj = "DEFAULT_SETTINGS"
                            THEN new ELSE DEFAULT_SETTINGS
     /\ ss' = [ss EXCEPT ![c] = k.ss]
     /\ loc' = [loc EXCEPT ![c] = k.loc]
     /\ UNCHANGED <<session, ret, now, files>>

\* The ICT settings form, advisor_app.py 328-343.
SettingsForm(c, tl) ==
  /\ loc[c].pc = "idle"
  /\ SaveSettings(c, "ict_settings",
                  [load_settings(ss[c], files) EXCEPT !.TOKEN_LIFETIME = tl])

\* set_dept_abbreviation, core.py 329-334.
SetDeptAbbreviation(c, department, abbreviation) ==
  /\ loc[c].pc = "idle"
  /\ LET settings == load_settings(ss[c], files)
     IN SaveSettings(c, "set_dept_abbreviation",
                     [settings EXCEPT !.dept_abbreviations =
                        (department :> upper(strip(abbreviation))) @@ @])

InitSettingsSpec ==
  /\ session = <<>> /\ ret = <<>>
  /\ now = 0
  /\ DEFAULT_SETTINGS = InitDefaultSettings
  /\ files = <<>>
  /\ ss = [c \in SettingsClients |->
             [settings_cache |-> None, settings_cache_sha |-> None,
              shown |-> ""]]
  /\ loc = [c \in SettingsClients |-> Idle]

NextSettings ==
  \/ \E c \in SettingsClients : SettingsRender(c)
  \/ \E c \in SettingsClients, tl \in LifetimeInputs : SettingsForm(c, tl)
  \/ \E c \in SettingsClients, a \in AbbreviationInputs :
       SetDeptAbbreviation(c, Department, a)
  \/ \E c \in SettingsClients : WriteJsonGet(c)
  \/ \E c \in SettingsClients : WriteJsonPut(c)
  \/ \E c \in SettingsClients : WriteJsonSha(c)

SpecSettings == InitSettingsSpec /\ [][NextSettings]_vars

(***************************************************************************)
(* Properties.                                                             *)
(***************************************************************************)
\* str.casefold() on the alphabet: "I" folds to "i", U+0131 folds to itself.
casefold(s) == lower(s)

SameName(e1, e2) ==
  /\ lower(strip(e1.surname)) = lower(strip(e2.surname))
  /\ lower(strip(e1.other_names)) = lower(strip(e2.other_names))

\* C1: in every session reachable by add_entry, edit_entry and delete_entry
\* no two entries have the same (surname, other_names), compared
\* case-insensitively after trimming, and no two have the same matric.
C1_NoDuplicateEntries ==
  \A i, j \in 1..Len(session.entries) :
    i # j => /\ ~SameName(session.entries[i], session.entries[j])
             /\ session.entries[i].matric # session.entries[j].matric

\* An entry that a successful add_entry (or edit_entry) of a name equal to
\* (surname, other_names) after trimming and case-folding has left in the list.
HasEntryOfName(s, surname, other_names) ==
  \E sur0 \in Surnames, oth0 \in OtherNames :
    /\ casefold(strip(sur0)) = casefold(strip(surname))
    /\ casefold(strip(oth0)) = casefold(strip(other_names))
    /\ \E k \in 1..Len(s.entries) :
         /\ s.entries[k].surname = upper(strip(sur0))
         /\ s.entries[k].other_names = title(strip(oth0))

\* C8: once add_entry has succeeded for a name, an add_entry of a name equal
\* to it after trimming and case-folding (with any matric) fails with the
\* duplicate-name error and leaves entries and next_sn unchanged.
C8_DuplicateNameRejected ==
  [][\A sur \in Surnames, oth \in OtherNames, mat \in Matrics :
       (AddEntry(sur, oth, mat) /\ HasEntryOfName(session, sur, oth))
         => (~ret'.ok /\ ret'.msg = MsgNameDup /\ session' = session)]_vars

CountSn(s, n) == Cardinality({k \in 1..Len(s.entries) : s.entries[k].sn = n})

SnsOf(s) == {s.entries[k].sn : k \in 1..Len(s.entries)}

\* C9: next_sn never decreases, and a sequence number is given to an entry
\* only if it was never given before: an entry that appears carries a number
\* at or above the old next_sn and below the new one, once.
C9_SnNeverReused ==
  [][/\ session'.next_sn >= session.next_sn
     /\ \A n \in SnsOf(session') :
          CountSn(session', n) > CountSn(session, n)
            => /\ n >= session.next_sn
               /\ n < session'.next_sn
               /\ CountSn(session', n) = 1]_vars

\* C9's case: an entry was deleted and a later add_entry succeeded.
C9_Witness ==
  /\ ret.op = "add_entry" /\ ret.ok
  /\ Len(session.entries) >= 1
  /\ Len(session.entries) < session.next_sn - 1
  /\ session.entries[Len(session.entries)].sn = session.next_sn - 1

\* C4: validate_token is false for every code once the token's age has
\* reached the lifetime, also for the stored token; before that it is true
\* exactly when the trimmed code equals the stored token.
C4_ValidateToken ==
  ret.op = "validate_token" =>
    LET elapsed == ret.at - session.token_generated_at
    IN /\ elapsed >= ret.lifetime => ret.value = FALSE
       /\ elapsed < ret.lifetime
            => (ret.value <=> strip(ret.code) = session.token)

\* C4's case: the stored token itself is submitted after it has expired.
C4_Witness ==
  /\ ret.op = "validate_token"
  /\ ret.at - session.token_generated_at >= ret.lifetime
  /\ strip(ret.code) = session.token
  /\ ret.value = FALSE

\* check_and_register_device(..., device_id, matric) has returned (True, "").
Accepted(device_id, matric) == <<device_id, matric>> \in ret

\* C3: a non-empty device identifier is never accepted by
\* check_and_register_device for two different matric numbers under one key,
\* whatever the interleaving of the submissions.
C3_DeviceBoundToOneMatric ==
  \A p, q \in ret : (p[1] # <<>> /\ p[1] = q[1]) => p[2] = q[2]

\* A student's turn is in check_and_register_device, about to read the map.
InDeviceCheck(c) == loc[c].pc = "device_read"

\* C10: once check_and_register_device has succeeded for device d and matric
\* m1, a later call with d and another matric fails with the device-reuse
\* error and leaves the device map unchanged.
C10_DeviceReuseRejected ==
  [][\A c \in Students :
       (/\ InDeviceCheck(c)
        /\ StuDeviceRead(c)
        /\ \E p \in ret : /\ p[1] = loc[c].frame.dev_id
                           /\ p[2] # strip(loc[c].frame.matric))
         => /\ ss'[c].shown = MsgDeviceUsed
            /\ loc'[c] = Idle
            /\ files' = files]_vars

\* Client c is in save_session with the revision it loaded, about to PUT.
PendingSave(c) ==
  /\ loc[c].pc = "write_json_put"
  /\ loc[c].path = SessionPath
  /\ loc[c].then \in {"stu_save", "rep_add", "rep_edit", "rep_delete"}
  /\ loc[c].sha # None

\* Client c's save_session has just been accepted by the store.
SaveAccepted(c) ==
  /\ loc[c].pc = "write_json_sha"
  /\ loc[c].path = SessionPath
  /\ loc[c].then \in {"stu_save", "rep_add", "rep_edit", "rep_delete"}

\* C2 as stated: of two turns that loaded the same revision of the session
\* document and save with it, at most one save succeeds.  Here: while c's
\* accepted save is still in write_json, no save of another client made
\* with the same loaded revision is accepted.
C2_AtMostOneSaveSucceeds ==
  [][\A c, d \in DOMAIN loc :
       (/\ c # d
        /\ SaveAccepted(c) /\ PendingSave(d)
        /\ loc[c].sha = loc[d].sha
        /\ loc'[d] # loc[d])
         => loc'[d].pc # "write_json_sha"]_vars

\* C2, amended: a save_session made with a loaded revision is accepted only
\* if the stored document still has the content of that revision; an
\* accepted save leaves exactly the saver's document in the store, a
\* refused one leaves the store as it was and returns None to the caller.
\* So of two saves from one revision the second is refused once the first
\* has changed the document, and the store never holds a merge.
C2_SaveOnlyOnLoadedRevision ==
  [][\A c \in DOMAIN loc :
       (PendingSave(c) /\ loc'[c] # loc[c])
         => IF loc'[c].pc = "write_json_sha"
            THEN /\ SessionPath \in DOMAIN files
                 /\ Sha(files[SessionPath]) = loc[c].sha[1]
                 /\ files'[SessionPath] = loc[c].data
            ELSE /\ files' = files
                 /\ loc'[c] = Resume(ss[c], loc[c], None, now).loc
                 /\ ss'[c] = Resume(ss[c], loc[c], None, now).ss]_vars

\* Two turns loaded the same revision; one save was accepted and changed
\* the document, the other is about to be sent.
C2_Witness ==
  \E c, d \in DOMAIN loc :
    /\ c # d
    /\ SaveAccepted(c) /\ PendingSave(d)
    /\ loc[c].sha = loc[d].sha
    /\ SessionPath \in DOMAIN files
    /\ Sha(files[SessionPath]) # loc[d].sha[1]
    /\ files[SessionPath] = loc[c].data

\* The rep's turn takes a step.
RepStep == loc'[Rep] # loc[Rep]

\* The export of `final` is not in the archive.
NotExported(fs, final) ==
  \/ LavaPath(final) \notin DOMAIN fs
  \/ fs[LavaPath(final)] # session_to_csv(final)

\* C5: when the export push of the End action fails, the End handler ends
\* there: the session document is still in the store, unchanged by the
\* handler, and the dashboard still holds the session.
C5_ExportFailureKeepsSession ==
  [][/\ (loc[Rep].pc \in {"end_load", "push_get"} /\ RepStep)
         => files' = files
     /\ (loc[Rep].pc = "push_put" /\ RepStep
          /\ NotExported(files', loc[Rep].final))
         => /\ loc'[Rep] = Idle
            /\ ss'[Rep].shown = "Push failed"
            /\ ss'[Rep].rep_session # None
            /\ SessionPath \in DOMAIN files'
            /\ files'[SessionPath] = files[SessionPath]]_vars

\* The push of an End action has failed, with entries in the session.
C5_Witness ==
  /\ loc[Rep] = Idle
  /\ ss[Rep].shown = "Push failed"
  /\ SessionPath \in DOMAIN files
  /\ files[SessionPath].entries # <<>>
  /\ ss[Rep].rep_session # None

\* C6: whenever the dashboard has cleared its session after an End action
\* whose export succeeded, no session document exists at the path.
C6_SessionAbsentAfterEnd ==
  (loc[Rep] = Idle /\ ss[Rep].shown = "Done" /\ ss[Rep].rep_session = None)
    => SessionPath \notin DOMAIN files

\* C7: the End action exports the copy of the session it reads from the
\* store in its own turn: what it goes on with is the stored document at
\* the moment of the read, and the file pushed is the CSV of that document,
\* with a row for each of its entries.
C7_ExportsFreshCopy ==
  [][/\ (loc[Rep].pc = "end_load" /\ RepStep /\ SessionPath \in DOMAIN files)
         => /\ loc'[Rep].pc = "push_get"
            /\ loc'[Rep].final = files[SessionPath]
     /\ (loc[Rep].pc = "push_get" /\ RepStep)
         => loc'[Rep].final = loc[Rep].final
     /\ (loc[Rep].pc = "push_put" /\ RepStep /\ loc'[Rep].pc = "delete_get")
         => LET final == loc[Rep].final
                csv == files'[LavaPath(final)]
            IN /\ csv = session_to_csv(final)
               /\ \A k \in 1..Len(final.entries) :
                    \E r \in 2..Len(csv) :
                      /\ csv[r][2] = final.entries[k].surname
                      /\ csv[r][3] = final.entries[k].other_names
                      /\ csv[r][4] = final.entries[k].matric]_vars

\* An export has been pushed that holds more rows than the copy in the
\* rep's st.session_state has entries: a student's entry saved after the
\* rep's last render.
C7_Witness ==
  /\ loc[Rep].pc = "delete_get"
  /\ ss[Rep].rep_session # None
  /\ LavaPath(ss[Rep].rep_session[1]) \in DOMAIN files
  /\ Len(files[LavaPath(ss[Rep].rep_session[1])])
       > 1 + Len(ss[Rep].rep_session[1].entries)

\* C18 as stated: edit_entry and delete_entry with a sequence number that
\* no entry has return the not-found failure and leave the session as it is.
C18_AbsentSnNotFound ==
  [][/\ \A sn \in 1..MaxSn, sur \in Surnames, oth \in OtherNames, mat \in Matrics :
          (EditEntry(sn, sur, oth, mat) /\ sn \notin SnsOf(session))
            => (~ret'.ok /\ ret'.msg = MsgNotFound /\ session' = session)
     /\ \A sn \in 1..MaxSn :
          (DeleteEntry(sn) /\ sn \notin SnsOf(session))
            => (~ret'.ok /\ ret'.msg = MsgNotFound /\ session' = session)]_vars

\* C18, amended: with a sequence number that no entry has, both functions
\* fail and leave the session as it is; delete_entry gives the not-found
\* failure, edit_entry gives it unless the new name or matric is that of an
\* entry of the list, which it reports first with the duplicate failure.
C18_AbsentSnFails ==
  [][/\ \A sn \in 1..MaxSn, sur \in Surnames, oth \in OtherNames, mat \in Matrics :
          (EditEntry(sn, sur, oth, mat) /\ sn \notin SnsOf(session))
            => /\ ~ret'.ok /\ session' = session
               /\ ret'.msg =
                    IF _name_dup(session.entries, sur, oth, sn)
                    THEN MsgEditNameDup
                    ELSE IF _matric_dup(session.entries, mat, sn)
                    THEN MsgEditMatDup
                    ELSE MsgNotFound
     /\ \A sn \in 1..MaxSn :
          (DeleteEntry(sn) /\ sn \notin SnsOf(session))
            => (~ret'.ok /\ ret'.msg = MsgNotFound /\ session' = session)]_vars

\* A call for a sequence number that was deleted has returned not-found
\* while other entries are in the list.
C18_Witness ==
  /\ ret.op \in {"edit_entry", "delete_entry"}
  /\ ~ret.ok /\ ret.msg = MsgNotFound
  /\ session.entries # <<>>
  /\ session.entries[1].sn > 1

\* C20: in every session state after start_session and any number of
\* refresh_token calls the token is a string of exactly four decimal digits.
C20_TokenFourDigits ==
  /\ Len(session.token) = 4
  /\ \A k \in 1..Len(session.token) : session.token[k] \in Digits

\* refresh_token has put a new token whose number has fewer than four
\* digits.
C20_Witness ==
  /\ ret.op = "refresh_token" /\ ret.value
  /\ session.token_generated_at > 0
  /\ session.token[1] = "0"

\* Browser session c calls start_session in this step.
StartSessionCalled(c) ==
  /\ loc[c].pc = "idle"
  /\ loc'[c].pc = "write_json_get"
  /\ loc'[c].then = "rep_start"

\* C11: start_session is invoked for a key only when no session document is
\* stored at that key.
C11_StartOnlyWhenAbsent ==
  [][\A c \in StartClients :
       StartSessionCalled(c) => SessionPath \notin DOMAIN files]_vars

\* C12: start_session builds a session with next_sn = 1, no entries and a
\* four-digit token; its write, when the store accepts it, puts exactly that
\* session at the key's path whatever was stored there; the first
\* successful add_entry on it makes an entry with sn = 1 and next_sn = 2.
C12_StartSession ==
  [][/\ \A c \in StartClients :
          /\ StartSessionCalled(c)
                => /\ loc'[c].path = SessionPath
                   /\ loc'[c].sha = None
                   /\ loc'[c].data.next_sn = 1
                   /\ loc'[c].data.entries = <<>>
                   /\ Len(loc'[c].data.token) = 4
                   /\ \A k \in 1..4 : loc'[c].data.token[k] \in Digits
          /\ (loc[c].pc = "write_json_put" /\ loc[c].then = "rep_start"
               /\ loc'[c].pc = "write_json_sha")
                => files'[SessionPath] = loc[c].data
     /\ (/\ loc[Rep].pc = "add_load"
         /\ loc'[Rep].pc = "write_json_put"
         /\ files[SessionPath].next_sn = 1 /\ files[SessionPath].entries = <<>>)
           => /\ Len(loc'[Rep].data.entries) = 1
              /\ loc'[Rep].data.entries[1].sn = 1
              /\ loc'[Rep].data.next_sn = 2]_vars

\* start_session has replaced a session document that was in the store.
C12_Witness ==
  \E c \in StartClients :
    /\ loc[c].pc = "write_json_sha" /\ loc[c].then = "rep_start"
    /\ loc[c].sha # None
    /\ SessionPath \in DOMAIN files
    /\ files[SessionPath] = loc[c].data
    /\ Sha(files[SessionPath]) # loc[c].sha[1]

\* The rep's save_session for a manual add, an edit or a delete fails in
\* this step.
RepSaveFails ==
  /\ loc[Rep].pc = "write_json_put"
  /\ loc[Rep].then \in {"rep_add", "rep_edit", "rep_delete"}
  /\ RepStep
  /\ loc'[Rep].pc # "write_json_sha"

\* C14: when save_session fails during a rep's manual add, edit or delete,
\* the rep's in-memory session does not keep the unsaved change and the
\* action is not reported as a success; and no later turn persists it: the
\* token refresh, the one write made without a user action, stores the
\* entries that are in the store already.
C14_FailedSaveDiscarded ==
  [][/\ RepSaveFails
         => /\ ss'[Rep].rep_session = ss[Rep].rep_session
            /\ ss'[Rep].shown \notin {"Entry recorded.", "Entry updated."}
     /\ (/\ loc[Rep].pc = "write_json_put" /\ loc[Rep].then = "rep_refresh"
         /\ loc'[Rep].pc = "write_json_sha")
         => loc[Rep].data.entries = files[SessionPath].entries]_vars

\* C19: every write of the session document that the dashboard issues for
\* a manual add, an edit, a delete or the end of the session is computed
\* from the document and the revision that are in the store when the
\* handler, in that same turn, reads them.
C19_WritesFromFreshCopy ==
  [][/\ (RepStep /\ loc'[Rep].pc = "write_json_put"
          /\ loc[Rep].pc \in {"add_load", "edit_load", "delete_load"})
         => LET stored == files[SessionPath]
                click == loc[Rep].click
            IN /\ loc'[Rep].path = SessionPath
               /\ loc'[Rep].sha = Some(Sha(stored))
               /\ loc'[Rep].data =
                    CASE loc[Rep].pc = "add_load" ->
                           add_entry(stored, click.surname, click.other_names,
                                     click.matric, now).session
                      [] loc[Rep].pc = "edit_load" ->
                           edit_entry(stored, click.sn, click.surname,
                                      click.other_names, click.matric).session
                      [] loc[Rep].pc = "delete_load" ->
                           delete_entry(stored, click.sn).session
     /\ (RepStep /\ loc[Rep].pc = "delete_get" /\ loc'[Rep].pc = "delete_delete")
         => loc'[Rep].sha = Sha(files[SessionPath])]_vars

\* An edit or a delete is being written that was computed from a document
\* newer than the copy the dashboard held.
C19_Witness ==
  /\ loc[Rep].pc = "write_json_put"
  /\ loc[Rep].then \in {"rep_edit", "rep_delete"}
  /\ ss[Rep].rep_session_sha # None
  /\ ss[Rep].rep_session_sha # loc[Rep].sha
  /\ SessionPath \in DOMAIN files
  /\ loc[Rep].sha = Some(Sha(files[SessionPath]))

\* C17: no turn of a workflow ends in an unhandled fault.
C17_NoUnhandledFault ==
  \A c \in DOMAIN ss : ss[c].shown # UnhandledFault

\* The user directory the store holds.
StoredUsers ==
  LET r == read_json(files, USERS_PATH)
  IN IF r.data = None THEN <<>> ELSE r.data[1]

\* Browser session c is in the save of an account change.
InUsersSave(c) ==
  /\ loc[c].pc \in {"write_json_get", "write_json_put", "write_json_sha"}
  /\ loc[c].then = "users_save"

\* In this step the save of c's settings operation fails: write_json
\* returns None and the operation ends.
SettingsSaveFails(c) ==
  /\ loc[c].pc = "write_json_put" /\ loc[c].then = "settings_save"
  /\ loc'[c] = Idle

\* C13: when the store write of save_settings or set_dept_abbreviation
\* fails, the next load_settings() of the same browser session returns the
\* settings as that session had them before the failed operation.
C13_FailedWriteDiscarded ==
  [][\A c \in DOMAIN loc :
       SettingsSaveFails(c)
         => load_settings(ss[c], files)' = loc[c].frame.loaded]_vars

\* C15: create_user with a username that the stored user directory already
\* holds fails with the uniqueness message and leaves the directory as it
\* is: no create_user goes on to its save, and no save of a create_user
\* changes the store, while the store holds the username.
C15_CreateExistingFails ==
  [][\A c \in DOMAIN loc : \A u \in Usernames :
       u \in DOMAIN StoredUsers =>
         /\ (loc[c].pc = "users_handler" /\ InUsersSave(c)'
              /\ loc'[c].frame.op = "create_user"
              /\ u \in DOMAIN loc'[c].data
              /\ u \notin DOMAIN loc'[c].frame.loaded)
            => FALSE
         /\ (InUsersSave(c) /\ loc[c].frame.op = "create_user"
              /\ u \notin DOMAIN loc[c].frame.loaded)
            => files' = files]_vars

\* C16: while the accepted save of browser session d is still in progress,
\* a save of session c that was prepared from a directory other than the
\* stored one is refused, is reported as a failure, and leaves the stored
\* directory as d wrote it.
C16_LaterWriterFails ==
  [][\A c, d \in DOMAIN loc :
       (/\ c # d
        /\ InUsersSave(d) /\ loc[d].pc = "write_json_sha"
        /\ InUsersSave(c) /\ loc[c].pc = "write_json_put"
        /\ loc[c].frame.loaded # StoredUsers
        /\ loc'[c] # loc[c])
       => /\ files' = files
          /\ loc'[c].pc = "idle"
          /\ ss'[c].shown = MsgWriteFailed]_vars

\* C21: refresh_token called a second time with the same lifetime and with
\* no time elapsed since the first call reports refreshed = FALSE and leaves
\* the session (token and token_generated_at) as the first call left it.
C21_RefreshIdempotent ==
  [][(/\ ret.op = "refresh_token" /\ ret.at = now
      /\ ret'.op = "refresh_token" /\ now' = now
      /\ ret'.lifetime = ret.lifetime)
     => /\ ret'.value = FALSE
        /\ session'.token = session.token
        /\ session'.token_generated_at = session.token_generated_at]_vars

\* C21: the first call has just rotated the token, and the call after it, at
\* the same time, has reported FALSE.
C21_Witness ==
  /\ ret.op = "refresh_token" /\ ret.value = FALSE
  /\ ret.at = now /\ now > 0
  /\ session.token_generated_at = now

\* C22: authenticate_user returns the record of the username exactly when
\* the directory load_users() gave has a record for the username whose role
\* is the expected role and whose hash is the hash of the password, and
\* None on every mismatch.
C22_AuthenticateUser ==
  ret.op = "authenticate_user" =>
    LET users == ss[LoginClient].users_cache[1]
        match == /\ ret.username \in DOMAIN users
                 /\ users[ret.username].role = ret.role
                 /\ users[ret.username].password_hash = hash_password(ret.password)
    IN /\ match => ret.value = Some(users[ret.username])
       /\ ~match => ret.value = None

\* C22: a rep account with the right password has been refused as advisor.
C22_Witness ==
  /\ ret.op = "authenticate_user" /\ ret.role = "advisor"
  /\ ret.value = None
  /\ LET users == ss[LoginClient].users_cache[1]
     IN /\ ret.username \in DOMAIN users
        /\ users[ret.username].role = "rep"
        /\ users[ret.username].password_hash = hash_password(ret.password)

\* C23: whenever the store holds no settings document and no settings edit
\* is in progress, load_settings() in every browser session returns
\* TOKEN_LIFETIME = 7 and an empty map of department abbreviations.
C23_DefaultsWhenAbsent ==
  (SETTINGS_PATH \notin DOMAIN files /\ \A c \in DOMAIN loc : loc[c] = Idle) =>
    \A c \in DOMAIN ss :
      /\ load_settings(ss[c], files).TOKEN_LIFETIME = 7
      /\ load_settings(ss[c], files).dept_abbreviations = <<>>

\* C24: cached_read_json returns the cached dict and sha, and leaves the
\* cache as it is, when the key is cached, whatever the store holds; when
\* the key is not cached it returns, and caches, the stored document (the
\* default {} when the store has none) with the sha of the stored document.
C24_CachedReadJson ==
  [][(ret'.op = "cached_read_json" /\ files' = files)
     => LET s == ss[LoginClient]
            r == read_json(files, USERS_PATH)
        IN IF s.users_cache # None
           THEN /\ ret'.value = [data |-> s.users_cache[1],
                                 sha |-> s.users_cache_sha]
                /\ ss' = ss
           ELSE /\ ret'.value =
                     [data |-> IF r.data = None THEN <<>> ELSE r.data[1],
                      sha |-> r.sha]
                /\ ss'[LoginClient].users_cache = Some(ret'.value.data)
                /\ ss'[LoginClient].users_cache_sha = r.sha]_vars

\* C24: cached_read_json has returned the cached directory while the store
\* held another one.
C24_Witness ==
  /\ ret.op = "cached_read_json" /\ ret.cached
  /\ ret.stored.data # None
  /\ ret.stored.data[1] # ret.value.data
  /\ ret.stored.sha # ret.value.sha

\* C25: when a settings operation (the ICT form's save_settings,
\* set_dept_abbreviation) has written the store and returns, the browser
\* session's cache entry of the settings is gone, so its next
\* load_settings() reads the store.
C25_CacheInvalidatedAfterSave ==
  [][\A c \in DOMAIN loc :
       (/\ loc[c].pc = "write_json_sha" /\ loc[c].then = "settings_save"
        /\ loc'[c] = Idle)
       => ss'[c].settings_cache = None]_vars

RepTurnClick ==
  IF loc[Rep].pc \in {"rep_load", "table_load", "add_load", "edit_load",
                      "delete_load"}
  THEN Some(loc[Rep].click)
  ELSE IF loc[Rep].pc \in {"write_json_get", "write_json_put", "write_json_sha"}
          /\ loc[Rep].then = "rep_refresh"
  THEN Some(loc[Rep].frame.click)
  ELSE None

\* The rep's running turn handles a manual add that fails validation.
InvalidAddTurn ==
  /\ RepTurnClick # None
  /\ RepTurnClick[1].kind = "add"
  /\ \/ strip(RepTurnClick[1].surname) = <<>>
     \/ strip(RepTurnClick[1].other_names) = <<>>
     \/ ~validate_matric(RepTurnClick[1].matric)

\* The student's turn of this step ends in the validation message.
StuValidationFails(c) == ss'[c] # ss[c] /\ ss'[c].shown = "validation"

\* C27 (as stated): a student submission and a rep manual add with a
\* validation failure perform no store read or write: once the validation
\* message is shown the turn has ended, and the student's stage is kept.
C27_ValidationNoStoreAccess ==
  /\ [][StuValidationFails("s1")
        => (/\ loc'["s1"] = Idle /\ files' = files
            /\ ss'["s1"].stu_stage = ss["s1"].stu_stage)]_vars
  /\ [](ss[Rep].shown = MsgNamesEmpty => loc[Rep] = Idle)

\* C27 (amended): a student submission with a validation failure performs
\* no store read or write and keeps the student's stage and session copy.
\* A rep manual add with a validation failure never reaches the handler's
\* load_session, add_entry and save_session: the only store accesses of
\* that dashboard turn are the login's load_session, the token refresh save
\* and the entry table's load_session.
C27_ValidationSkipsHandler ==
  /\ [][StuValidationFails("s1")
        => (/\ loc["s1"] = Idle /\ loc'["s1"] = Idle /\ files' = files
            /\ ss'["s1"].stu_stage = ss["s1"].stu_stage
            /\ ss'["s1"].stu_session = ss["s1"].stu_session)]_vars
  /\ [](InvalidAddTurn
          => /\ loc[Rep].pc # "add_load"
             /\ loc[Rep].pc \in {"write_json_get", "write_json_put", "write_json_sha"}
                  => loc[Rep].then = "rep_refresh")
  /\ [][(InvalidAddTurn /\ RepStep /\ files' # files)
        => (loc[Rep].pc = "write_json_put" /\ loc[Rep].then = "rep_refresh")]_vars

\* C27: the rep's manual add with a blank surname has shown its message and
\* the turn has ended, and the student's submission has failed validation
\* in the entry stage.
C27_Witness ==
  /\ loc[Rep] = Idle /\ ss[Rep].shown = MsgNamesEmpty
  /\ loc["s1"] = Idle /\ ss["s1"].shown = "validation"
  /\ ss["s1"].stu_stage = "entry"

\* The usernames whose record differs between directories old and new.
ChangedUsers(old, new) ==
  {u \in DOMAIN old \cup DOMAIN new :
     \/ u \notin DOMAIN old \/ u \notin DOMAIN new
     \/ old[u] # new[u]}

\* The record of u in the directory that has one, the old one first.
RecordsOf(old, new, u) ==
  (IF u \in DOMAIN old THEN {old[u]} ELSE {})
  \cup (IF u \in DOMAIN new THEN {new[u]} ELSE {})

\* C28: a write of the logged-in advisor's browser session creates or
\* deletes no advisor record, and every record it creates, deletes or
\* changes has the school and the department of the advisor who logged in.
C28_AdvisorOwnDepartmentOnly ==
  [][(/\ loc[Advisor].pc = "write_json_put" /\ loc'[Advisor] # loc[Advisor]
      /\ files' # files)
     => LET old == StoredUsers
            new == StoredUsers'
            adv == ss[Advisor].adv_user[1]
        IN \A u \in ChangedUsers(old, new) :
             \A rec \in RecordsOf(old, new, u) :
                /\ rec.school = adv.school
                /\ rec.department = adv.department
                /\ (u \notin DOMAIN old \/ u \notin DOMAIN new)
                     => rec.role # "advisor"]_vars

\* The token of the stored session document has reached its lifetime.
StoredTokenDue(g) ==
  /\ SessionPath \in DOMAIN files
  /\ files[SessionPath].token_generated_at = g
  /\ now - g >= TokenLifetime(files)

\* C29: while the session is active and the dashboard keeps polling,
\* whenever the token of the stored session document has reached the
\* lifetime, the stored document later carries a token with a newer
\* token_generated_at.
C29_TokenKeepsRotating ==
  \A g \in 0..AppMaxTime :
    StoredTokenDue(g)
      ~> (SessionPath \in DOMAIN files
          /\ files[SessionPath].token_generated_at > g)

\* C29 (witness): the stored session carries a token generated after the
\* first one had reached its lifetime, and a student's entry as well.
C29_Witness ==
  /\ SessionPath \in DOMAIN files
  /\ files[SessionPath].token_generated_at >= TokenLifetime(files)
  /\ files[SessionPath].token # generate_token(42)
  /\ files[SessionPath].entries # <<>>

\* The sns of the entries of the stored session document.
StoredSns(fs) ==
  IF SessionPath \in DOMAIN fs THEN SnsOfEntries(fs[SessionPath].entries) ELSE {}

\* This step is the write of the rep's delete_entry(session, sn) on the
\* stored document.
DeleteEntryWritten(sn) ==
  /\ loc[Rep].pc = "write_json_put" /\ loc[Rep].then = "rep_delete"
  /\ loc'[Rep] # loc[Rep]
  /\ loc[Rep].data = delete_entry(files[SessionPath], sn).session

\* C30: an entry of the stored session document is in the stored document
\* after every step, unless the step writes the delete_entry of its sn or
\* the session document is gone (the session has been ended).
C30_PersistedEntryStays ==
  [][\A sn \in StoredSns(files) :
       \/ sn \in StoredSns(files')
       \/ SessionPath \notin DOMAIN files'
       \/ DeleteEntryWritten(sn)]_vars

\* C40: in every session reached by add_entry, edit_entry and delete_entry
\* the sequence numbers of the entries are at least 1 and below next_sn,
\* and the entries are stored in strictly increasing order of sn (so the
\* sequence numbers are pairwise distinct).
C40_SnOrdered ==
  LET e == session.entries
  IN /\ \A k \in 1..Len(e) : e[k].sn >= 1 /\ e[k].sn < session.next_sn
     /\ \A j, k \in 1..Len(e) : j < k => e[j].sn < e[k].sn
     /\ \A j, k \in 1..Len(e) : j # k => e[j].sn # e[k].sn

\* C40 (witness): after a delete_entry and a later add_entry the list holds
\* two entries whose sequence numbers are not consecutive.
C40_Witness ==
  /\ ret.op = "add_entry" /\ ret.ok
  /\ Len(session.entries) = 2
  /\ session.entries[2].sn > session.entries[1].sn + 1

\* C39: for the session, every lifetime and the present instant,
\* token_remaining is lifetime - elapsed where that is positive and 0
\* otherwise; it is 0 exactly when validate_token rejects every code (the
\* session's own token included) and exactly when refresh_token generates a
\* new token; and a call of token_remaining or validate_token leaves the
\* session as it is.
C39_TokenFunctionsAgree ==
  /\ [](\A l \in Lifetimes :
          LET elapsed == now - session.token_generated_at
              rem     == token_remaining(session, l, now)
          IN /\ rem = IF l - elapsed > 0 THEN l - elapsed ELSE 0
             /\ (rem = 0) <=> (\A code \in Codes \cup {session.token} :
                                 ~validate_token(session, code, l, now))
             /\ (rem = 0) <=> (\A n \in RandInts :
                                 refresh_token(session, l, n, now).refreshed))
  /\ [][(ret' # ret /\ ret'.op \in {"token_remaining", "validate_token"})
          => session' = session]_vars

\* C39 (witness): validate_token has just rejected the session's own token
\* at the instant token_remaining is 0 and refresh_token is due.
C39_Witness ==
  /\ ret.op = "validate_token" /\ ret.at = now
  /\ ret.code = session.token /\ ret.value = FALSE
  /\ now - session.token_generated_at = ret.lifetime
  /\ token_remaining(session, ret.lifetime, now) = 0

\* In this step student c enters the done stage.
BecomesDone(c) == ss[c].stu_stage # "done" /\ ss'[c].stu_stage = "done"

\* The last element of a non-empty sequence.
Last(seq) == seq[Len(seq)]

\* C32 (as stated): at the moment a student enters the done stage the
\* stored session document has the student's entry as its last entry.
C32_DoneEntryStoredLast ==
  [][\A c \in Students \cap DOMAIN ss :
       BecomesDone(c)
         => /\ SessionPath \in DOMAIN files'
            /\ files'[SessionPath].entries # <<>>
            /\ Last(files'[SessionPath].entries)
                 = Last(ss'[c].stu_session[1].entries)]_vars

\* C32 (amended): a student enters the done stage only in the step in
\* which the write_json of the submission's save_session returns a sha,
\* with the copy that was saved; and when the PUT of that save was
\* accepted, the stored document became that copy, whose last entry is the
\* student's.
C32_DoneOnlyAfterSave ==
  /\ [][\A c \in Students \cap DOMAIN ss :
          BecomesDone(c)
            => /\ loc[c].pc = "write_json_sha" /\ loc[c].then = "stu_save"
               /\ SessionPath \in DOMAIN files
               /\ ss'[c].stu_session = Some(loc[c].data)]_vars
  /\ [][\A c \in Students \cap DOMAIN ss :
          (/\ loc[c].pc = "write_json_put" /\ loc[c].then = "stu_save"
           /\ loc'[c].pc = "write_json_sha")
            => /\ files'[SessionPath] = loc[c].data
               /\ Last(files'[SessionPath].entries).matric
                    = strip(loc[c].frame.matric)]_vars

\* C32 (witness): a student is in the done stage and the stored session
\* document holds the student's entry, with an entry of the rep after it.
C32_Witness ==
  \E c \in Students \cap DOMAIN ss :
    /\ ss[c].stu_stage = "done"
    /\ SessionPath \in DOMAIN files
    /\ LET e == files[SessionPath].entries
           mine == Last(ss[c].stu_session[1].entries)
       IN /\ \E k \in 1..Len(e) : e[k] = mine
          /\ Last(e) # mine

\* The paths of the archive (LAVA) in store fs.
ArchivePaths(fs) == {p \in DOMAIN fs : Len(p) = 4 /\ p[1] = "LAVA"}

\* The sequence numbers that have a row in an exported CSV of store fs.
ExportedSns(fs) ==
  UNION {{fs[p][r][1] : r \in 2..Len(fs[p])} : p \in ArchivePaths(fs)}

\* The entry numbered sn is in the live session document or in an export.
Recorded(sn, fs) == sn \in StoredSns(fs) \/ sn \in ExportedSns(fs)

\* C31: the entry of a student who has reached the done stage, once it is
\* in the live session document or in an exported CSV, stays in one of
\* them after every step, unless the step writes the rep's delete_entry
\* of it.
C31_DoneEntryNotLost ==
  [][\A c \in Students \cap DOMAIN ss :
       ss[c].stu_stage = "done"
         => LET sn == Last(ss[c].stu_session[1].entries).sn
            IN Recorded(sn, files)
                 => Recorded(sn, files') \/ DeleteEntryWritten(sn)]_vars

\* In this step the dashboard run passes its token display (app.py
\* 420-434): the top of the script is done, with or without a token
\* refresh, and the run goes on to the manual-add form or to the table.
RepShowsToken ==
  /\ RepStep
  /\ \/ loc[Rep].pc \in {"idle", "rep_load"}
     \/ /\ loc[Rep].pc \in {"write_json_put", "write_json_sha"}
        /\ loc[Rep].then = "rep_refresh"
  /\ loc'[Rep].pc \in {"add_load", "table_load"}
  /\ ss'[Rep].rep_session # None

\* C33: the token a dashboard run displays for an active session is the
\* token of the stored session document.
C33_ShownTokenIsStored ==
  [][(RepShowsToken /\ SessionPath \in DOMAIN files')
       => ss'[Rep].rep_session[1].token = files'[SessionPath].token]_vars

\* This step is the PUT of a start_session.
StartSessionWritten ==
  \E c \in DOMAIN loc :
    /\ loc[c].pc = "write_json_put" /\ loc[c].then = "rep_start"
    /\ loc'[c] # loc[c]

\* C34: a step brings a session document to a key that has none only when
\* it is the write of a start_session; a dashboard that still holds a copy
\* of an ended session does not bring it back.
C34_CreatedOnlyByStart ==
  [][(SessionPath \notin DOMAIN files /\ SessionPath \in DOMAIN files')
       => StartSessionWritten]_vars

\* The matric numbers of the entries of the stored session.
StoredMatrics(fs) ==
  IF SessionPath \in DOMAIN fs
  THEN {fs[SessionPath].entries[k].matric : k \in 1..Len(fs[SessionPath].entries)}
  ELSE {}

\* C35: a device is bound to a matric in the device map only when the
\* stored session holds an entry of that matric; a submission that was
\* rejected as a duplicate, or whose save failed, binds nothing.  While the
\* submission is under way its binding may be in the map already.
\* A submission from device d for matric m is under way.
Submitting(d, m) ==
  \E c \in DOMAIN loc :
    /\ loc[c].pc \in {"write_json_get", "write_json_put", "write_json_sha"}
    /\ loc[c].then \in {"device", "stu_save"}
    /\ loc[c].frame.dev_id = d /\ strip(loc[c].frame.matric) = m

C35_DeviceBoundOnlyByStoredEntry ==
  \A p \in DOMAIN DeviceMaps(files) : \A d \in DOMAIN files[p] :
    \/ upper(files[p][d]) \in StoredMatrics(files)
    \/ Submitting(d, files[p][d])

\* The session instance a document belongs to.
Instance(s) == <<s.started_at, s.course_code>>

\* The PUT of student c's save_session is accepted in this step.
StudentEntryWritten(c) ==
  /\ loc[c].pc = "write_json_put" /\ loc[c].then = "stu_save"
  /\ loc[c].path = SessionPath
  /\ loc'[c] # loc[c] /\ files' # files

\* C36: a student's entry is written only into the session instance the
\* student's code was validated against (the one kept in stu_session by the
\* code check).
C36_EntryIntoValidatedSession ==
  [][\A c \in DOMAIN loc \cap Students :
       StudentEntryWritten(c)
         => Instance(files'[SessionPath]) = Instance(ss[c].stu_session[1])]_vars

\* Every entry row of the CSV old (the rows after the header) is a row of
\* the CSV new.
RowsKept(old, new) ==
  \A r \in 2..Len(old) : \E q \in 2..Len(new) : new[q] = old[r]

\* C38: an export never replaces the archive file of an earlier session:
\* every entry row an archive file holds is still in that file after every
\* step.
C38_ArchiveKept ==
  [][\A p \in ArchivePaths(files) :
       /\ p \in ArchivePaths(files')
       /\ RowsKept(files[p], files'[p])]_vars

\* C37: a login succeeds only when the stored directory of that moment
\* allows it: it holds the username with the role asked for and the hash
\* of the password given.
C37_LoginAgainstStoredUsers ==
  [][(/\ ret' # ret /\ ret'.op = "authenticate_user" /\ ret'.value # None
      /\ files' = files)
       => authenticate_user(StoredUsers, ret'.username, ret'.password,
                            ret'.role) # None]_vars

====
